---------------------------- MODULE Spec2Model ----------------------------
(***************************************************************************)
(* fastops: resource stack composition (resources.py) and teardown         *)
(* (teardown.py).                                                          *)
(*                                                                         *)
(* Strings are sequences of tokens.  Resource names and volume keys are    *)
(* sequences of one-character tokens, so that startswith, replace and      *)
(* slicing are computed on characters.  Other strings (URLs, messages,     *)
(* vendor error texts) are cut into tokens at the places where the code    *)
(* splices a value in or tests for a substring, so that `x in s` is the    *)
(* contiguous-subsequence test IsInfix.                                    *)
(* Python dicts are TLA+ functions; None and the dict/list distinction     *)
(* that isinstance() reads are tagged records.                             *)
(***************************************************************************)
EXTENDS Integers, Sequences, FiniteSets, TLC

VARIABLES
    resources,   \* the ResourceRecord: sequence of [name, fn], insertion order
    cloud,       \* objects existing at the cloud vendors
    pc,          \* "idle" | "stack" | "destroy_stack" | "returned" | "raised"
    op,          \* the call in progress or last finished: "none" | "stack" | "destroy_stack"
    prev,        \* history: <<op, pc>> of the call before it
    idx,         \* number of loop iterations completed in the running call
    ds_provider, \* destroy_stack's provider argument
    ds_kw,       \* destroy_stack's keyword arguments
    merged_env,  \* stack(): merged_env
    dc,          \* stack(): the Compose object, [services, volumes]
    volumes,     \* stack(): the volumes list
    results,     \* destroy_stack(): results
    ret,         \* what the finished call returned, or the error it raised
    invoked,     \* history: names whose resource_fn the running call invoked, in order
    stackOrder,  \* history: invoked, as the last completed stack() left it
    calls,       \* history: the remote calls the running call issued, in order
    failed,      \* history: the last remote call of the running call that raised
    ncalls,      \* number of calls started
    goneAtStart, \* history: no object of the record existed when the call began
    arg_type,    \* destroy(): the resource_type argument of a call made on its own
    arg_name,    \* destroy(): the name argument of a call made on its own
    fn_arg,      \* a provisioning closure applied on its own
    env_dict,    \* the environment fragment given to the classifier
    svc_out,     \* the manifest fragment the closure returned
    out,         \* what the classifier returned
    response,    \* history: what the vendor answered to the last probe call of status()
    config,      \* ResourceConfig._resources of the config built by from_env
    infra_args,  \* provision()/server_status(): the arguments, and whether pyinfra is installed
    ops,         \* history: the pyinfra operations and SSH commands the running call issued, in order
    srv_status   \* server_status(): status

vars == <<resources, cloud, pc, op, prev, idx, ds_provider, ds_kw, merged_env, dc, volumes,
          results, ret, invoked, stackOrder, calls, failed, ncalls, goneAtStart,
          arg_type, arg_name, fn_arg, env_dict, svc_out, out, response,
                   config, infra_args, ops, srv_status>>

-----------------------------------------------------------------------------
(* Bounds *)

MaxRes == 2

MaxCalls == 2

-----------------------------------------------------------------------------
(* Strings and dicts *)

EmptyDict == [k \in {} |-> k]

Get(d, key, default) == IF key \in DOMAIN d THEN d[key] ELSE default

Update_first_wins(d, e) ==
    [k \in DOMAIN d \cup DOMAIN e |-> IF k \in DOMAIN d THEN d[k] ELSE e[k]]

Update_replacing(d, e) == e

Update_keeping(d, e) == d

\* d.update(e)
Update(d, e) == [k \in DOMAIN d \cup DOMAIN e |-> IF k \in DOMAIN e THEN e[k] ELSE d[k]]

RECURSIVE Reverse(_)
Reverse(s) == IF s = <<>> THEN <<>> ELSE Reverse(Tail(s)) \o <<Head(s)>>

IsInfix(sub, s) ==
    \E k \in 0..(Len(s) - Len(sub)) : SubSeq(s, k + 1, k + Len(sub)) = sub

startswith(s, c) == Len(s) >= 1 /\ s[1] = c

replace(s, c) == SelectSeq(s, LAMBDA t : t # c)

Prefix(s, n) == SubSeq(s, 1, IF Len(s) < n THEN Len(s) ELSE n)

Range(s) == {s[k] : k \in DOMAIN s}

None == [tag |-> "None"]

DictVal(d) == [tag |-> "dict", d |-> d]

ListVal(l) == [tag |-> "list", l |-> l]

StrVal(s) == [tag |-> "str", s |-> s]

pgdata == <<"p", "g", "d", "a", "t", "a">>

mysqldata == <<"m", "y", "s", "q", "l", "d", "a", "t", "a">>

mongodata == <<"m", "o", "n", "g", "o", "d", "a", "t", "a">>

redis_data == <<"r", "e", "d", "i", "s", "-", "d", "a", "t", "a">>

rabbitmq_data == <<"r", "a", "b", "b", "i", "t", "m", "q", "-", "d", "a", "t", "a">>

minio_data == <<"m", "i", "n", "i", "o", "-", "d", "a", "t", "a">>

ollama_data == <<"o", "l", "l", "a", "m", "a", "-", "d", "a", "t", "a">>

es_data_as_path == <<".", "/", "e", "s", "-", "d", "a", "t", "a">>

es_data == <<"e", "s", "-", "d", "a", "t", "a">>

-----------------------------------------------------------------------------
(* The cloud-CLI collaborators callaws / callaz / gcloud.  A remote call    *)
(* names the vendor object it acts on and what it does to it: "create" it,  *)
(* "delete" it, or "read", "update" or "empty" it (which need it to exist). *)
(* An object is <<vendor, type, name, parent type, parent name>>; the      *)
(* parent is the account, namespace or server the object lives in, if any. *)

Call(api, cmd, verb, type, name) ==
    [api |-> api, cmd |-> cmd, verb |-> verb, obj |-> <<api, type, name, "", <<>>>>]

CallIn(api, cmd, verb, type, name, ptype, pname) ==
    [api |-> api, cmd |-> cmd, verb |-> verb, obj |-> <<api, type, name, ptype, pname>>]

HasParent(o) == o[4] # ""

Parent(o) == <<o[1], o[4], o[5], "", <<>>>>

\* A provisioning function's return value: the (env, svc) pair, with the
\* remote calls it issued on the way.
Pair(env, svc, cs) == [env |-> env, svc |-> svc, calls |-> cs]

Responded(field) == <<"<", field, ">">>


-----------------------------------------------------------------------------
(* resources.py: the provisioning functions.  c is the closure's bound      *)
(* arguments: [f, name, engine, provider, kw].                              *)

database(c) ==
    LET name == c.name
        password == Get(c.kw, "password", <<"secret">>)
    IN  IF c.provider = "docker" /\ c.engine = "postgres" THEN
            Pair(("DATABASE_URL" :> (<<"postgresql://postgres:">> \o password \o <<"@db:5432/">> \o name))
                 @@ ("DB_PROVIDER" :> <<"docker">>),
                 DictVal(("image" :> (<<"postgres:">> \o Get(c.kw, "version", <<"16">>)))
                      @@ ("env" :> (("POSTGRES_PASSWORD" :> password) @@ ("POSTGRES_DB" :> name)))
                      @@ ("ports" :> ("5432" :> "5432"))
                      @@ ("volumes" :> DictVal(pgdata :> <<"/var/lib/postgresql/data">>))
                      @@ ("restart" :> <<"unless-stopped">>)),
                 <<>>)
        ELSE IF c.provider = "docker" /\ c.engine = "mysql" THEN
            Pair(("DATABASE_URL" :> (<<"mysql://root:">> \o password \o <<"@db:3306/">> \o name))
                 @@ ("DB_PROVIDER" :> <<"docker">>),
                 DictVal(("image" :> (<<"mysql:">> \o Get(c.kw, "version", <<"8">>)))
                      @@ ("env" :> (("MYSQL_ROOT_PASSWORD" :> password) @@ ("MYSQL_DATABASE" :> name)))
                      @@ ("ports" :> ("3306" :> "3306"))
                      @@ ("volumes" :> DictVal(mysqldata :> <<"/var/lib/mysql">>))
                      @@ ("restart" :> <<"unless-stopped">>)),
                 <<>>)
        ELSE IF c.provider = "docker" /\ c.engine = "mongo" THEN
            Pair(("DATABASE_URL" :> (<<"mongodb://admin:">> \o password \o <<"@db:27017/">> \o name
                                      \o <<"?authSource=admin">>))
                 @@ ("DB_PROVIDER" :> <<"docker">>),
                 DictVal(("image" :> (<<"mongo:">> \o Get(c.kw, "version", <<"7">>)))
                      @@ ("env" :> (("MONGO_INITDB_ROOT_USERNAME" :> <<"admin">>)
                                    @@ ("MONGO_INITDB_ROOT_PASSWORD" :> password)))
                      @@ ("ports" :> ("27017" :> "27017"))
                      @@ ("volumes" :> DictVal(mongodata :> <<"/data/db">>))
                      @@ ("restart" :> <<"unless-stopped">>)),
                 <<>>)
        ELSE IF c.provider = "aws" THEN
            LET username == Get(c.kw, "username", <<"appadmin">>)
            IN  Pair(("DATABASE_URL" :> (<<"postgresql://">> \o username \o <<":">> \o password \o <<"@">>
                                          \o Responded("Address") \o <<":">> \o Responded("Port")
                                          \o <<"/">> \o name))
                     @@ ("DB_PROVIDER" :> <<"rds">>),
                     None,
                     << Call("aws", <<"rds", "create-db-instance">>, "create", "db-instance", name) >>)
        ELSE IF c.provider = "azure" THEN
            LET admin_user == Get(c.kw, "admin_user", <<"appadmin">>)
            IN  Pair(("DATABASE_URL" :> (<<"postgresql://">> \o admin_user \o <<":">> \o password \o <<"@">>
                                          \o Responded("fullyQualifiedDomainName") \o <<":5432/">> \o name))
                     @@ ("DB_PROVIDER" :> <<"azure_postgres">>),
                     None,
                     << Call("azure", <<"postgres", "flexible-server", "create">>, "create",
                             "postgres-server", name) >>)
        ELSE Pair(EmptyDict, None, <<>>)

cache_docker_by_default(c) ==
    LET name == c.name
    IN  IF c.provider \notin {"aws", "azure"} THEN
            Pair(("REDIS_URL" :> <<"redis://redis:6379">>) @@ ("CACHE_PROVIDER" :> <<"redis">>),
                 DictVal(("image" :> <<"redis:7-alpine">>)
                      @@ ("command" :> <<"redis-server --appendonly yes">>)
                      @@ ("ports" :> ("6379" :> "6379"))
                      @@ ("volumes" :> DictVal(redis_data :> <<"/data">>))
                      @@ ("restart" :> <<"unless-stopped">>)),
                 <<>>)
        ELSE IF c.provider = "aws" THEN
            Pair(("REDIS_URL" :> (<<"redis://">> \o Responded("Address") \o <<":">> \o Responded("Port")))
                 @@ ("CACHE_PROVIDER" :> <<"elasticache">>),
                 None,
                 << Call("aws", <<"elasticache", "create-cache-cluster">>, "create", "cache-cluster", name) >>)
        ELSE IF c.provider = "azure" THEN
            Pair(("REDIS_URL" :> (<<"rediss://:">> \o Responded("primaryKey") \o <<"@">>
                                   \o Responded("hostName") \o <<":6380">>))
                 @@ ("CACHE_PROVIDER" :> <<"azure_redis">>),
                 None,
                 << Call("azure", <<"redis", "create">>, "create", "redis", name),
                    Call("azure", <<"redis", "list-keys">>, "read", "redis", name) >>)
        ELSE Pair(EmptyDict, None, <<>>)

cache(c) ==
    LET name == c.name
    IN  IF c.provider = "docker" THEN
            Pair(("REDIS_URL" :> <<"redis://redis:6379">>) @@ ("CACHE_PROVIDER" :> <<"redis">>),
                 DictVal(("image" :> <<"redis:7-alpine">>)
                      @@ ("command" :> <<"redis-server --appendonly yes">>)
                      @@ ("ports" :> ("6379" :> "6379"))
                      @@ ("volumes" :> DictVal(redis_data :> <<"/data">>))
                      @@ ("restart" :> <<"unless-stopped">>)),
                 <<>>)
        ELSE IF c.provider = "aws" THEN
            Pair(("REDIS_URL" :> (<<"redis://">> \o Responded("Address") \o <<":">> \o Responded("Port")))
                 @@ ("CACHE_PROVIDER" :> <<"elasticache">>),
                 None,
                 << Call("aws", <<"elasticache", "create-cache-cluster">>, "create", "cache-cluster", name) >>)
        ELSE IF c.provider = "azure" THEN
            Pair(("REDIS_URL" :> (<<"rediss://:">> \o Responded("primaryKey") \o <<"@">>
                                   \o Responded("hostName") \o <<":6380">>))
                 @@ ("CACHE_PROVIDER" :> <<"azure_redis">>),
                 None,
                 << Call("azure", <<"redis", "create">>, "create", "redis", name),
                    Call("azure", <<"redis", "list-keys">>, "read", "redis", name) >>)
        ELSE Pair(EmptyDict, None, <<>>)

queue(c) ==
    LET name == c.name
    IN  IF c.provider = "docker" THEN
            LET password == Get(c.kw, "password", <<"guest">>)
            IN  Pair(("QUEUE_URL" :> (<<"amqp://guest:">> \o password \o <<"@rabbitmq:5672/">>))
                     @@ ("QUEUE_NAME" :> name),
                     DictVal(("image" :> <<"rabbitmq:3-management">>)
                          @@ ("env" :> (("RABBITMQ_DEFAULT_USER" :> <<"guest">>)
                                        @@ ("RABBITMQ_DEFAULT_PASS" :> password)))
                          @@ ("ports" :> (("5672" :> "5672") @@ ("15672" :> "15672")))
                          @@ ("volumes" :> DictVal(rabbitmq_data :> <<"/var/lib/rabbitmq">>))
                          @@ ("restart" :> <<"unless-stopped">>)),
                     <<>>)
        ELSE IF c.provider = "aws" THEN
            Pair(("QUEUE_URL" :> Responded("QueueUrl")) @@ ("QUEUE_NAME" :> name)
                 @@ ("QUEUE_PROVIDER" :> <<"sqs">>),
                 None,
                 << Call("aws", <<"sqs", "create-queue">>, "create", "sqs-queue", name) >>)
        ELSE IF c.provider = "azure" THEN
            LET namespace == Get(c.kw, "namespace", name \o <<"-", "n", "s">>)
            IN  Pair(("QUEUE_URL" :> Responded("primaryConnectionString")) @@ ("QUEUE_NAME" :> name)
                     @@ ("QUEUE_PROVIDER" :> <<"servicebus">>),
                     None,
                     << Call("azure", <<"servicebus", "namespace", "create">>, "create",
                             "servicebus-namespace", namespace),
                        CallIn("azure", <<"servicebus", "queue", "create">>, "create",
                               "servicebus-queue", name, "servicebus-namespace", namespace),
                        Call("azure", <<"servicebus", "namespace", "authorization-rule", "keys", "list">>,
                             "read", "servicebus-namespace", namespace) >>)
        ELSE IF c.provider = "gcp" THEN
            LET sub_name == name \o <<"-", "s", "u", "b">>
            IN  Pair(("QUEUE_TOPIC" :> name) @@ ("QUEUE_SUBSCRIPTION" :> sub_name)
                     @@ ("QUEUE_PROVIDER" :> <<"pubsub">>),
                     None,
                     << Call("gcp", <<"pubsub", "topics", "create">>, "create", "topic", name),
                        Call("gcp", <<"pubsub", "subscriptions", "create">>, "create",
                             "subscription", sub_name) >>)
        ELSE Pair(EmptyDict, None, <<>>)

AccountNameMax == 24

\* name.replace('-', '').replace('_', '')[:24]
account_name_of(name) == Prefix(replace(replace(name, "-"), "_"), AccountNameMax)

bucket(c) ==
    LET name == c.name
    IN  IF c.provider = "docker" THEN
            LET access_key == Get(c.kw, "access_key", <<"minioadmin">>)
                secret_key == Get(c.kw, "secret_key", <<"minioadmin">>)
            IN  Pair(("S3_ENDPOINT" :> <<"http://minio:9000">>) @@ ("S3_BUCKET" :> name)
                     @@ ("S3_ACCESS_KEY" :> access_key) @@ ("S3_SECRET_KEY" :> secret_key),
                     DictVal(("image" :> <<"minio/minio:latest">>)
                          @@ ("command" :> <<"server /data --console-address \":9001\"">>)
                          @@ ("env" :> (("MINIO_ROOT_USER" :> access_key)
                                        @@ ("MINIO_ROOT_PASSWORD" :> secret_key)))
                          @@ ("ports" :> (("9000" :> "9000") @@ ("9001" :> "9001")))
                          @@ ("volumes" :> DictVal(minio_data :> <<"/data">>))
                          @@ ("restart" :> <<"unless-stopped">>)),
                     <<>>)
        ELSE IF c.provider = "aws" THEN
            Pair(("S3_BUCKET" :> name) @@ ("S3_REGION" :> Get(c.kw, "region", <<"us-east-1">>))
                 @@ ("STORAGE_PROVIDER" :> <<"aws">>),
                 None,
                 << Call("aws", <<"s3api", "create-bucket">>, "create", "s3-bucket", name),
                    Call("aws", <<"s3api", "put-bucket-encryption">>, "update", "s3-bucket", name),
                    Call("aws", <<"s3api", "put-public-access-block">>, "update", "s3-bucket", name) >>)
        ELSE IF c.provider = "azure" THEN
            LET account_name == Get(c.kw, "account_name", account_name_of(name))
            IN  Pair(("AZURE_STORAGE_CONNECTION_STRING" :> Responded("connectionString"))
                     @@ ("AZURE_STORAGE_CONTAINER" :> name) @@ ("STORAGE_PROVIDER" :> <<"azure">>),
                     None,
                     << Call("azure", <<"storage", "account", "create">>, "create",
                             "storage-account", account_name),
                        CallIn("azure", <<"storage", "container", "create">>, "create",
                               "storage-container", name, "storage-account", account_name),
                        Call("azure", <<"storage", "account", "show-connection-string">>, "read",
                             "storage-account", account_name) >>)
        ELSE IF c.provider = "gcp" THEN
            Pair(("GCS_BUCKET" :> name) @@ ("STORAGE_PROVIDER" :> <<"gcp">>),
                 None,
                 << Call("gcp", <<"storage", "buckets", "create">>, "create", "gcs-bucket", name) >>)
        ELSE Pair(EmptyDict, None, <<>>)

llm(c) ==
    LET name == c.name
    IN  IF c.provider = "docker" THEN
            Pair(("LLM_ENDPOINT" :> <<"http://ollama:11434">>) @@ ("LLM_MODEL" :> name)
                 @@ ("LLM_PROVIDER" :> <<"ollama">>),
                 DictVal(("image" :> <<"ollama/ollama:latest">>)
                      @@ ("ports" :> ("11434" :> "11434"))
                      @@ ("volumes" :> DictVal(ollama_data :> <<"/root/.ollama">>))
                      @@ ("restart" :> <<"unless-stopped">>)),
                 <<>>)
        ELSE IF c.provider = "openai" THEN
            Pair(("LLM_ENDPOINT" :> <<"https://api.openai.com/v1">>) @@ ("LLM_MODEL" :> name)
                 @@ ("LLM_PROVIDER" :> <<"openai">>) @@ ("OPENAI_API_KEY" :> <<"${OPENAI_API_KEY}">>),
                 None,
                 <<>>)
        ELSE IF c.provider = "azure" THEN
            LET deployment_name == Get(c.kw, "deployment",
                                       name \o <<"-", "d", "e", "p", "l", "o", "y", "m", "e", "n", "t">>)
            IN  Pair(("LLM_ENDPOINT" :> Responded("endpoint"))
                     @@ ("LLM_MODEL" :> Get(c.kw, "model_name", <<"gpt-4">>))
                     @@ ("LLM_PROVIDER" :> <<"azure_openai">>)
                     @@ ("AZURE_OPENAI_API_KEY" :> Responded("key1"))
                     @@ ("AZURE_OPENAI_DEPLOYMENT" :> deployment_name),
                     None,
                     << Call("azure", <<"cognitiveservices", "account", "create">>, "create",
                             "cognitive-account", name),
                        CallIn("azure", <<"cognitiveservices", "account", "deployment", "create">>, "create",
                               "cognitive-deployment", deployment_name, "cognitive-account", name),
                        Call("azure", <<"cognitiveservices", "account", "show">>, "read",
                             "cognitive-account", name),
                        Call("azure", <<"cognitiveservices", "account", "keys", "list">>, "read",
                             "cognitive-account", name) >>)
        ELSE IF c.provider = "aws" THEN
            Pair(("LLM_MODEL" :> Get(c.kw, "model_id", <<"anthropic.">> \o name))
                 @@ ("LLM_PROVIDER" :> <<"bedrock">>)
                 @@ ("AWS_REGION" :> Get(c.kw, "region", <<"us-east-1">>)),
                 None,
                 <<>>)
        ELSE Pair(EmptyDict, None, <<>>)

function(c) ==
    LET name == c.name
    IN  IF c.provider = "aws" THEN
            Pair(("FUNCTION_ARN" :> Responded("FunctionArn")) @@ ("FUNCTION_NAME" :> name)
                 @@ ("FUNCTION_PROVIDER" :> <<"lambda">>),
                 None,
                 << Call("aws", <<"lambda", "create-function">>, "create", "lambda-function", name) >>)
        ELSE IF c.provider = "azure" THEN
            LET storage_account == Get(c.kw, "storage_account",
                                       name \o <<"s", "t", "o", "r", "a", "g", "e">>)
            IN  Pair(("FUNCTION_URL" :> (<<"https://">> \o name \o <<".azurewebsites.net">>))
                     @@ ("FUNCTION_NAME" :> name) @@ ("FUNCTION_PROVIDER" :> <<"azure_functions">>),
                     None,
                     << Call("azure", <<"storage", "account", "create">>, "create",
                             "storage-account", storage_account),
                        Call("azure", <<"functionapp", "create">>, "create", "functionapp", name) >>)
        ELSE IF c.provider = "gcp" THEN
            Pair(("FUNCTION_URL" :> Responded("url")) @@ ("FUNCTION_NAME" :> name)
                 @@ ("FUNCTION_PROVIDER" :> <<"gcp_functions">>),
                 None,
                 << Call("gcp", <<"functions", "deploy">>, "create", "gcp-function", name) >>)
        ELSE Pair(EmptyDict, None, <<>>)

search(c) ==
    LET name == c.name
    IN  IF c.provider = "docker" THEN
            Pair(("SEARCH_URL" :> <<"http://elasticsearch:9200">>)
                 @@ ("SEARCH_PROVIDER" :> <<"elasticsearch">>),
                 DictVal(("image" :> <<"elasticsearch:8.12.0">>)
                      @@ ("env" :> (("discovery.type" :> <<"single-node">>)
                                    @@ ("xpack.security.enabled" :> <<"false">>)
                                    @@ ("ES_JAVA_OPTS" :> <<"-Xms512m -Xmx512m">>)))
                      @@ ("ports" :> ("9200" :> "9200"))
                      @@ ("volumes" :> DictVal(es_data :> <<"/usr/share/elasticsearch/data">>))
                      @@ ("restart" :> <<"unless-stopped">>)),
                 <<>>)
        ELSE IF c.provider = "aws" THEN
            Pair(("SEARCH_URL" :> (<<"https://">> \o Responded("Endpoint")))
                 @@ ("SEARCH_PROVIDER" :> <<"opensearch">>),
                 None,
                 << Call("aws", <<"opensearch", "create-domain">>, "create", "opensearch-domain", name) >>)
        ELSE IF c.provider = "azure" THEN
            Pair(("SEARCH_URL" :> (<<"https://">> \o name \o <<".search.windows.net">>))
                 @@ ("SEARCH_API_KEY" :> Responded("primaryKey"))
                 @@ ("SEARCH_PROVIDER" :> <<"azure_search">>),
                 None,
                 << Call("azure", <<"search", "service", "create">>, "create", "search-service", name),
                    Call("azure", <<"search", "admin-key", "show">>, "read", "search-service", name) >>)
        ELSE Pair(EmptyDict, None, <<>>)

\* resource_fn(): a record's value is a closure over one provisioning
\* function, or any other callable returning an (env, svc) pair.
resource_fn_with_common_key(c) ==
    LET p == CASE c.f = "database" -> database(c)
               [] c.f = "cache"    -> cache(c)
               [] c.f = "queue"    -> queue(c)
               [] c.f = "bucket"   -> bucket(c)
               [] c.f = "llm"      -> llm(c)
               [] c.f = "function" -> function(c)
               [] c.f = "search"   -> search(c)
               [] c.f = "lambda"   -> Pair(c.env, c.svc, <<>>)
    IN  IF DOMAIN p.env = {} THEN p ELSE [p EXCEPT !.env = p.env @@ ("PROVIDER" :> <<c.provider>>)]

resource_fn(c) ==
    CASE c.f = "database" -> database(c)
      [] c.f = "cache"    -> cache(c)
      [] c.f = "queue"    -> queue(c)
      [] c.f = "bucket"   -> bucket(c)
      [] c.f = "llm"      -> llm(c)
      [] c.f = "function" -> function(c)
      [] c.f = "search"   -> search(c)
      [] c.f = "lambda"   -> Pair(c.env, c.svc, <<>>)

-----------------------------------------------------------------------------
(* The vendors, as the collaborators show them to the core: a call either   *)
(* succeeds or raises with a message.  A call on an object that does not    *)
(* exist raises; any call may fail for another reason.                      *)

NoErr == [type |-> "none", text |-> <<>>]

Err(type, text) == [type |-> type, text |-> text]

\* What a vendor says of an object that is not there.
NotFoundErrors(c) ==
    LET type == c.obj[2]
    IN  CASE c.api = "aws" /\ type = "db-instance" ->
                 {Err("Exception", <<"An error occurred (", "DBInstance", "NotFound", ")">>)}
          [] c.api = "aws" /\ type = "cache-cluster" ->
                 {Err("Exception", <<"An error occurred (", "CacheCluster", "NotFound", ")">>)}
          [] c.api = "aws" /\ type = "sqs-queue" ->
                 {Err("Exception", <<"An error occurred (", "AWS.SimpleQueueService.", "NonExistentQueue", ")">>),
                  Err("Exception", <<"An error occurred (", "QueueDoesNotExist", ")">>)}
          [] c.api = "aws" /\ type = "s3-bucket" ->
                 {Err("Exception", <<"An error occurred (", "NoSuchBucket", ")">>)}
          [] c.api = "aws" ->
                 {Err("Exception", <<"An error occurred (", "Resource", "NotFound", "Exception", ")">>)}
          [] c.api = "azure" /\ type = "storage-container" ->
                 {Err("Exception", <<"(", "Resource", "NotFound", ")">>),
                  Err("Exception", <<"(", "Container", "NotFound", ")">>)}
          [] c.api = "azure" ->
                 {Err("Exception", <<"(", "Resource", "NotFound", ")">>)}
          [] c.api = "gcp" ->
                 {Err("CalledProcessError", <<"ERROR: ", "NOT_FOUND", ": Resource not found">>),
                  Err("CalledProcessError", <<"ERROR: The resource ", "Does Not Exist">>)}

\* Failures that do not say the object is missing.
OtherErrors(c) ==
    CASE c.api = "aws"   -> {Err("Exception", <<"An error occurred (", "Throttling", ")">>)}
      [] c.api = "azure" -> {Err("Exception", <<"(", "AuthorizationFailed", ")">>)}
      [] c.api = "gcp"   -> {Err("CalledProcessError", <<"ERROR: ", "PERMISSION_DENIED">>),
                             Err("FileNotFoundError", <<"No such file or directory: 'gcloud'">>)}

CanSucceed(c, world) ==
    IF c.verb = "create" THEN HasParent(c.obj) => Parent(c.obj) \in world
    ELSE c.obj \in world

Errors(c, world) ==
    OtherErrors(c) \cup (IF CanSucceed(c, world) THEN {} ELSE NotFoundErrors(c))

\* Deleting an object deletes what lives in it.
Effect(c, world) ==
    CASE c.verb = "create" -> world \cup {c.obj}
      [] c.verb = "delete" -> {o \in world : o # c.obj /\ ~(HasParent(o) /\ Parent(o) = c.obj)}
      [] OTHER             -> world

\* The ways a straight-line sequence of remote calls can run from `world`:
\* the calls issued (the failing one included), the world left, the error
\* raised (NoErr when all succeeded).
RECURSIVE Runs(_, _)
Runs(plan, world) ==
    IF plan = <<>> THEN {[issued |-> <<>>, world |-> world, err |-> NoErr]}
    ELSE LET c == Head(plan)
         IN  {[issued |-> <<c>>, world |-> world, err |-> e] : e \in Errors(c, world)}
             \cup (IF CanSucceed(c, world)
                   THEN {[issued |-> <<c>> \o r.issued, world |-> r.world, err |-> r.err] :
                            r \in Runs(Tail(plan), Effect(c, world))}
                   ELSE {})

\* str.lower(), on the tokens vendor texts are made of.
lower(s) ==
    [k \in DOMAIN s |->
        CASE s[k] = "NOT_FOUND"         -> "not_found"
          [] s[k] = "Does Not Exist"    -> "does not exist"
          [] s[k] = "PERMISSION_DENIED" -> "permission_denied"
          [] s[k] = "ERROR: "           -> "error: "
          [] s[k] = "ERROR: The resource " -> "error: the resource "
          [] s[k] = ": Resource not found" -> ": resource not found"
          [] OTHER -> s[k]]

-----------------------------------------------------------------------------
(* teardown.py: the delete operations.  A _destroy_* function is given as   *)
(* the code of the branch it takes: an immediate return, or a try block of  *)
(* remote calls with its except clause (the exception class caught, the     *)
(* substrings looked for in the error text and in its lower-cased form, and *)
(* the two results).                                                        *)

Outcome(destroyed, message) == ("destroyed" :> destroyed) @@ ("message" :> message)

Return(value) == [kind |-> "return", value |-> value]

Try(plan, catches, probes, lowered, notfound, ok) ==
    [kind |-> "try", plan |-> plan, catches |-> catches, probes |-> probes,
     lowered |-> lowered, notfound |-> Outcome(FALSE, notfound), ok |-> Outcome(TRUE, ok)]

\* except Exception / except subprocess.CalledProcessError
Exception == {"Exception", "CalledProcessError", "FileNotFoundError"}

CalledProcessError == {"CalledProcessError"}

ViaCompose_not_destroyed == Return(Outcome(FALSE, <<"Remove via docker compose down -v">>))

ViaCompose == Return(Outcome(TRUE, <<"Remove via docker compose down -v">>))

Unsupported_as_success(provider) == Return(Outcome(TRUE, <<"Unsupported provider: ", provider>>))

Unsupported(provider) == Return(Outcome(FALSE, <<"Unsupported provider: ", provider>>))

GcpProbes == {<<"NOT_FOUND">>}

GcpLowered == {<<"does not exist">>}

_destroy_database(name, provider, kw) ==
    IF provider = "docker" THEN ViaCompose
    ELSE IF provider = "aws" THEN
        Try(<< Call("aws", <<"rds", "delete-db-instance">>, "delete", "db-instance", name) >>,
            Exception, {<<"DBInstance", "NotFound">>}, {},
            <<"RDS instance ">> \o name \o <<" ", "not found">>,
            <<"RDS instance ">> \o name \o <<" deletion initiated">>)
    ELSE IF provider = "azure" THEN
        Try(<< Call("azure", <<"postgres", "flexible-server", "delete">>, "delete", "postgres-server", name) >>,
            Exception, {<<"Resource", "NotFound">>}, {},
            <<"Azure DB ">> \o name \o <<" ", "not found">>,
            <<"Azure Postgres ">> \o name \o <<" deleted">>)
    ELSE Unsupported(provider)

_destroy_cache(name, provider, kw) ==
    IF provider = "docker" THEN ViaCompose
    ELSE IF provider = "aws" THEN
        Try(<< Call("aws", <<"elasticache", "delete-cache-cluster">>, "delete", "cache-cluster", name) >>,
            Exception, {<<"CacheCluster", "NotFound">>}, {},
            <<"ElastiCache cluster ">> \o name \o <<" ", "not found">>,
            <<"ElastiCache cluster ">> \o name \o <<" deletion initiated">>)
    ELSE IF provider = "azure" THEN
        Try(<< Call("azure", <<"redis", "delete">>, "delete", "redis", name) >>,
            Exception, {<<"Resource", "NotFound">>}, {},
            <<"Azure Redis ">> \o name \o <<" ", "not found">>,
            <<"Azure Redis ">> \o name \o <<" deleted">>)
    ELSE Unsupported(provider)

_destroy_queue(name, provider, kw) ==
    IF provider = "docker" THEN ViaCompose
    ELSE IF provider = "aws" THEN
        Try(<< Call("aws", <<"sqs", "get-queue-url">>, "read", "sqs-queue", name),
               Call("aws", <<"sqs", "delete-queue">>, "delete", "sqs-queue", name) >>,
            Exception, {<<"NonExistentQueue">>, <<"QueueDoesNotExist">>}, {},
            <<"SQS queue ">> \o name \o <<" ", "not found">>,
            <<"SQS queue ">> \o name \o <<" deleted">>)
    ELSE IF provider = "azure" THEN
        LET namespace == Get(kw, "namespace", name \o <<"-", "n", "s">>)
        IN  Try(<< Call("azure", <<"servicebus", "namespace", "delete">>, "delete",
                        "servicebus-namespace", namespace) >>,
                Exception, {<<"Resource", "NotFound">>}, {},
                <<"Azure ServiceBus namespace ">> \o namespace \o <<" ", "not found">>,
                <<"Azure ServiceBus namespace ">> \o namespace \o <<" deleted">>)
    ELSE IF provider = "gcp" THEN
        LET sub_name == name \o <<"-", "s", "u", "b">>
        IN  Try(<< Call("gcp", <<"pubsub", "subscriptions", "delete">>, "delete", "subscription", sub_name),
                   Call("gcp", <<"pubsub", "topics", "delete">>, "delete", "topic", name) >>,
                CalledProcessError, GcpProbes, GcpLowered,
                <<"GCP Pub/Sub topic ">> \o name \o <<" ", "not found">>,
                <<"GCP Pub/Sub topic ">> \o name \o <<" deleted">>)
    ELSE Unsupported(provider)

_destroy_bucket_delete_first(name, provider, kw) ==
    IF provider = "docker" THEN ViaCompose
    ELSE IF provider = "aws" THEN
        Try(<< Call("aws", <<"s3api", "delete-bucket">>, "delete", "s3-bucket", name) >>,
            Exception, {<<"NoSuchBucket">>}, {},
            <<"S3 bucket ">> \o name \o <<" ", "not found">>,
            <<"S3 bucket ">> \o name \o <<" deleted">>)
    ELSE IF provider = "azure" THEN
        LET account_name == Get(kw, "account_name", account_name_of(name))
        IN  Try(<< CallIn("azure", <<"storage", "container", "delete">>, "delete",
                          "storage-container", name, "storage-account", account_name),
                   Call("azure", <<"storage", "account", "delete">>, "delete",
                        "storage-account", account_name) >>,
                Exception, {<<"Resource", "NotFound">>, <<"NotFound">>}, {},
                <<"Azure storage ">> \o name \o <<" ", "not found">>,
                <<"Azure storage account ">> \o account_name \o <<" deleted">>)
    ELSE IF provider = "gcp" THEN
        Try(<< Call("gcp", <<"storage", "rm", "-r">>, "delete", "gcs-bucket", name) >>,
            CalledProcessError, GcpProbes, GcpLowered,
            <<"GCS bucket ">> \o name \o <<" ", "not found">>,
            <<"GCS bucket ">> \o name \o <<" deleted">>)
    ELSE Unsupported(provider)

_destroy_bucket(name, provider, kw) ==
    IF provider = "docker" THEN ViaCompose
    ELSE IF provider = "aws" THEN
        Try(<< Call("aws", <<"s3", "rm", "--recursive">>, "empty", "s3-bucket", name),
               Call("aws", <<"s3api", "delete-bucket">>, "delete", "s3-bucket", name) >>,
            Exception, {<<"NoSuchBucket">>}, {},
            <<"S3 bucket ">> \o name \o <<" ", "not found">>,
            <<"S3 bucket ">> \o name \o <<" deleted">>)
    ELSE IF provider = "azure" THEN
        LET account_name == Get(kw, "account_name", account_name_of(name))
        IN  Try(<< CallIn("azure", <<"storage", "container", "delete">>, "delete",
                          "storage-container", name, "storage-account", account_name),
                   Call("azure", <<"storage", "account", "delete">>, "delete",
                        "storage-account", account_name) >>,
                Exception, {<<"Resource", "NotFound">>, <<"NotFound">>}, {},
                <<"Azure storage ">> \o name \o <<" ", "not found">>,
                <<"Azure storage account ">> \o account_name \o <<" deleted">>)
    ELSE IF provider = "gcp" THEN
        Try(<< Call("gcp", <<"storage", "rm", "-r">>, "delete", "gcs-bucket", name) >>,
            CalledProcessError, GcpProbes, GcpLowered,
            <<"GCS bucket ">> \o name \o <<" ", "not found">>,
            <<"GCS bucket ">> \o name \o <<" deleted">>)
    ELSE Unsupported(provider)

_destroy_llm(name, provider, kw) ==
    IF provider = "docker" THEN ViaCompose
    ELSE IF provider = "openai" THEN Return(Outcome(TRUE, <<"No teardown needed for OpenAI">>))
    ELSE IF provider = "azure" THEN
        LET deployment_name == Get(kw, "deployment",
                                   name \o <<"-", "d", "e", "p", "l", "o", "y", "m", "e", "n", "t">>)
        IN  Try(<< CallIn("azure", <<"cognitiveservices", "account", "deployment", "delete">>, "delete",
                          "cognitive-deployment", deployment_name, "cognitive-account", name),
                   Call("azure", <<"cognitiveservices", "account", "delete">>, "delete",
                        "cognitive-account", name) >>,
                Exception, {<<"Resource", "NotFound">>}, {},
                <<"Azure OpenAI ">> \o name \o <<" ", "not found">>,
                <<"Azure OpenAI account ">> \o name \o <<" deleted">>)
    ELSE IF provider = "aws" THEN Return(Outcome(TRUE, <<"No teardown needed for Bedrock">>))
    ELSE Unsupported(provider)

_destroy_search(name, provider, kw) ==
    IF provider = "docker" THEN ViaCompose
    ELSE IF provider = "aws" THEN
        Try(<< Call("aws", <<"opensearch", "delete-domain">>, "delete", "opensearch-domain", name) >>,
            Exception, {<<"Resource", "NotFound", "Exception">>}, {},
            <<"OpenSearch domain ">> \o name \o <<" ", "not found">>,
            <<"OpenSearch domain ">> \o name \o <<" deletion initiated">>)
    ELSE IF provider = "azure" THEN
        Try(<< Call("azure", <<"search", "service", "delete">>, "delete", "search-service", name) >>,
            Exception, {<<"Resource", "NotFound">>}, {},
            <<"Azure Search ">> \o name \o <<" ", "not found">>,
            <<"Azure Search ">> \o name \o <<" deleted">>)
    ELSE Unsupported(provider)

_destroy_function_else_gcp(name, provider, kw) ==
    IF provider = "aws" THEN
        Try(<< Call("aws", <<"lambda", "delete-function">>, "delete", "lambda-function", name) >>,
            Exception, {<<"Resource", "NotFound", "Exception">>}, {},
            <<"Lambda function ">> \o name \o <<" ", "not found">>,
            <<"Lambda function ">> \o name \o <<" deleted">>)
    ELSE IF provider = "azure" THEN
        Try(<< Call("azure", <<"functionapp", "delete">>, "delete", "functionapp", name) >>,
            Exception, {<<"Resource", "NotFound">>}, {},
            <<"Azure Function ">> \o name \o <<" ", "not found">>,
            <<"Azure Function ">> \o name \o <<" deleted">>)
    ELSE
        Try(<< Call("gcp", <<"functions", "delete">>, "delete", "gcp-function", name) >>,
            CalledProcessError, GcpProbes, GcpLowered,
            <<"GCP function ">> \o name \o <<" ", "not found">>,
            <<"GCP function ">> \o name \o <<" deleted">>)

_destroy_function(name, provider, kw) ==
    IF provider = "aws" THEN
        Try(<< Call("aws", <<"lambda", "delete-function">>, "delete", "lambda-function", name) >>,
            Exception, {<<"Resource", "NotFound", "Exception">>}, {},
            <<"Lambda function ">> \o name \o <<" ", "not found">>,
            <<"Lambda function ">> \o name \o <<" deleted">>)
    ELSE IF provider = "azure" THEN
        Try(<< Call("azure", <<"functionapp", "delete">>, "delete", "functionapp", name) >>,
            Exception, {<<"Resource", "NotFound">>}, {},
            <<"Azure Function ">> \o name \o <<" ", "not found">>,
            <<"Azure Function ">> \o name \o <<" deleted">>)
    ELSE IF provider = "gcp" THEN
        Try(<< Call("gcp", <<"functions", "delete">>, "delete", "gcp-function", name) >>,
            CalledProcessError, GcpProbes, GcpLowered,
            <<"GCP function ">> \o name \o <<" ", "not found">>,
            <<"GCP function ">> \o name \o <<" deleted">>)
    ELSE Unsupported(provider)

dispatchers == {"database", "cache", "queue", "bucket", "llm", "search", "function"}

Dispatch(resource_type, name, provider, kw) ==
    CASE resource_type = "database" -> _destroy_database(name, provider, kw)
      [] resource_type = "cache"    -> _destroy_cache(name, provider, kw)
      [] resource_type = "queue"    -> _destroy_queue(name, provider, kw)
      [] resource_type = "bucket"   -> _destroy_bucket(name, provider, kw)
      [] resource_type = "llm"      -> _destroy_llm(name, provider, kw)
      [] resource_type = "search"   -> _destroy_search(name, provider, kw)
      [] resource_type = "function" -> _destroy_function(name, provider, kw)

\* except <catches> as e: if <probe> in str(e): return notfound; raise
IsNotFound_always(b, e) == TRUE

IsNotFound_case_sensitive(b, e) == \E p \in b.probes \cup b.lowered : IsInfix(p, e.text)

IsNotFound(b, e) ==
    \/ \E p \in b.probes : IsInfix(p, e.text)
    \/ \E p \in b.lowered : IsInfix(p, lower(e.text))

setdefault_nothing(d, key, value) == d

setdefault(d, key, value) == IF key \in DOMAIN d THEN d ELSE d @@ (key :> value)

\* The ways destroy(resource_type, name, provider, **kw) can run from
\* `world`: [issued, world, inner, err, value]: inner is the error a remote
\* call raised inside (NoErr if none did), err the error destroy raised
\* (NoErr if it returned), value the dict it returned.
destroy(resource_type, name, provider, kw, world) ==
    IF resource_type \notin dispatchers THEN
        {[issued |-> <<>>, world |-> world, inner |-> NoErr, err |-> NoErr,
          value |-> ("destroyed" :> FALSE) @@ ("resource" :> name) @@ ("provider" :> provider)
                    @@ ("message" :> <<"Unknown resource type: ", resource_type>>)]}
    ELSE
        LET b == Dispatch(resource_type, name, provider, kw)
            Done(r, result) ==
                [issued |-> r.issued, world |-> r.world, inner |-> r.err, err |-> NoErr,
                 value |-> setdefault(setdefault(result, "resource", name), "provider", provider)]
            Raise(r) == [issued |-> r.issued, world |-> r.world, inner |-> r.err, err |-> r.err,
                         value |-> EmptyDict]
        IN  IF b.kind = "return"
            THEN {Done([issued |-> <<>>, world |-> world, err |-> NoErr], b.value)}
            ELSE {IF r.err = NoErr THEN Done(r, b.ok)
                  ELSE IF r.err.type \in b.catches /\ IsNotFound(b, r.err) THEN Done(r, b.notfound)
                  ELSE Raise(r) :
                     r \in Runs(b.plan, world)}

_infer_queue_first(env) ==
    IF "QUEUE_URL" \in DOMAIN env \/ "QUEUE_TOPIC" \in DOMAIN env THEN "queue"
    ELSE IF "DATABASE_URL" \in DOMAIN env THEN "database"
    ELSE IF "REDIS_URL" \in DOMAIN env THEN "cache"
    ELSE IF \E k \in {"S3_ENDPOINT", "S3_BUCKET", "AZURE_STORAGE_CONNECTION_STRING", "GCS_BUCKET"} :
                k \in DOMAIN env THEN "bucket"
    ELSE IF "LLM_ENDPOINT" \in DOMAIN env \/ "LLM_MODEL" \in DOMAIN env THEN "llm"
    ELSE IF "SEARCH_URL" \in DOMAIN env THEN "search"
    ELSE IF "FUNCTION_ARN" \in DOMAIN env \/ "FUNCTION_URL" \in DOMAIN env THEN "function"
    ELSE "unknown"

_infer_without_topic(env) ==
    IF "DATABASE_URL" \in DOMAIN env THEN "database"
    ELSE IF "REDIS_URL" \in DOMAIN env THEN "cache"
    ELSE IF "QUEUE_URL" \in DOMAIN env THEN "queue"
    ELSE IF \E k \in {"S3_ENDPOINT", "S3_BUCKET", "AZURE_STORAGE_CONNECTION_STRING", "GCS_BUCKET"} :
                k \in DOMAIN env THEN "bucket"
    ELSE IF "LLM_ENDPOINT" \in DOMAIN env \/ "LLM_MODEL" \in DOMAIN env THEN "llm"
    ELSE IF "SEARCH_URL" \in DOMAIN env THEN "search"
    ELSE IF "FUNCTION_ARN" \in DOMAIN env \/ "FUNCTION_URL" \in DOMAIN env THEN "function"
    ELSE "unknown"

_infer_guessing(env) ==
    IF "DATABASE_URL" \in DOMAIN env THEN "database"
    ELSE IF "REDIS_URL" \in DOMAIN env THEN "cache"
    ELSE IF "QUEUE_URL" \in DOMAIN env \/ "QUEUE_TOPIC" \in DOMAIN env THEN "queue"
    ELSE IF \E k \in {"S3_ENDPOINT", "S3_BUCKET", "AZURE_STORAGE_CONNECTION_STRING", "GCS_BUCKET"} :
                k \in DOMAIN env THEN "bucket"
    ELSE IF "LLM_ENDPOINT" \in DOMAIN env \/ "LLM_MODEL" \in DOMAIN env THEN "llm"
    ELSE IF "SEARCH_URL" \in DOMAIN env THEN "search"
    ELSE "function"

_infer_resource_type(env) ==
    IF "DATABASE_URL" \in DOMAIN env THEN "database"
    ELSE IF "REDIS_URL" \in DOMAIN env THEN "cache"
    ELSE IF "QUEUE_URL" \in DOMAIN env \/ "QUEUE_TOPIC" \in DOMAIN env THEN "queue"
    ELSE IF \E k \in {"S3_ENDPOINT", "S3_BUCKET", "AZURE_STORAGE_CONNECTION_STRING", "GCS_BUCKET"} :
                k \in DOMAIN env THEN "bucket"
    ELSE IF "LLM_ENDPOINT" \in DOMAIN env \/ "LLM_MODEL" \in DOMAIN env THEN "llm"
    ELSE IF "SEARCH_URL" \in DOMAIN env THEN "search"
    ELSE IF "FUNCTION_ARN" \in DOMAIN env \/ "FUNCTION_URL" \in DOMAIN env THEN "function"
    ELSE "unknown"

-----------------------------------------------------------------------------
(* compose.py's Compose, as far as stack() uses it: named services and     *)
(* declared volumes.                                                       *)

Compose == [services |-> EmptyDict, volumes |-> {}]

svc(c, name, s) == [c EXCEPT !.services = Update(c.services, name :> s)]

volume(c, vol) == [c EXCEPT !.volumes = c.volumes \cup {vol}]

\* for vol in <list>: dc = dc.volume(vol)
RECURSIVE DeclareAll(_, _)
DeclareAll(c, l) == IF l = <<>> THEN c ELSE DeclareAll(volume(c, Head(l)), Tail(l))

\* list(set(volumes)): the distinct elements, in some order
ListsOfSet(S) ==
    {l \in [1..Cardinality(S) -> S] : \A a, b \in 1..Cardinality(S) : a # b => l[a] # l[b]}

-----------------------------------------------------------------------------
(* The records the model runs on.                                          *)

KeyNames == << <<"d", "b">>, <<"c", "a", "c", "h", "e">>, <<"q", "-", "1">>, <<"w", "e", "b">> >>

Closure(f, name, engine, provider) ==
    [f |-> f, name |-> name, engine |-> engine, provider |-> provider, kw |-> EmptyDict]

\* lambda: (env, svc)
Lambda(env, s) == [f |-> "lambda", env |-> env, svc |-> s]

\* An application service built from the source tree, with a bind mount, a
\* host path and a named volume another service declares too.
AppService ==
    Lambda("APP_ENV" :> <<"production">>,
           DictVal(("build" :> <<".">>)
                @@ ("volumes" :> DictVal((<<".", "/", "s", "r", "c">> :> <<"/app">>)
                                         @@ (<<"/", "s", "r", "v">> :> <<"/srv">>)
                                         @@ (pgdata :> <<"/backup">>)))))

\* A service whose volumes are given in the compose list form.
ListService ==
    Lambda("DATABASE_URL" :> <<"sqlite:///data.db">>,
           DictVal(("image" :> <<"app:latest">>)
                @@ ("volumes" :> ListVal(<< <<"d", "a", "t", "a", ":", "/", "d">> >>))))

Fns(name) ==
    { Closure("database", name, "postgres", "docker"),
      Closure("cache", name, "", "docker"),
      Closure("database", name, "postgres", "aws"),
      Closure("queue", name, "", "gcp"),
      Closure("bucket", name, "", "azure"),
      AppService,
      ListService }

Providers == {"docker", "aws", "azure", "gcp", "openai"}

\* The providers some closure of the pool was provisioned at.
PoolProviders == {c.provider : c \in {x \in Fns(KeyNames[1]) : x.f # "lambda"}}

Records ==
    UNION {{r \in [1..n -> UNION {Fns(KeyNames[k]) : k \in 1..n}] :
              \A k \in 1..n : r[k] \in Fns(KeyNames[k])} : n \in 1..MaxRes}

Entry(r, k) == [name |-> KeyNames[k], fn |-> r[k]]

NoRet == [kind |-> "none"]

NoResponse == [kind |-> "none"]

NoConfig == [kind |-> "none"]

NoArgs == [kind |-> "none"]

Returned(v) == [kind |-> "return", value |-> v]

Raised(e) == [kind |-> "raise", err |-> e]

\* The objects the record's provisioning functions create.
ObjectsOf(rs) ==
    UNION {{c.obj : c \in {x \in Range(resource_fn(rs[k].fn).calls) : x.verb = "create"}} :
              k \in DOMAIN rs}

Log(name, phase, cs) == [k \in DOMAIN cs |-> [resource |-> name, phase |-> phase, call |-> cs[k]]]

NoFailure == [resource |-> <<>>, phase |-> "none", call |-> Call("", <<>>, "", "", <<>>), err |-> NoErr]

\* The failing call of a run is the last one it issued.
Failure(name, phase, r, before) ==
    IF r.err = NoErr THEN before
    ELSE [resource |-> name, phase |-> phase, call |-> r.issued[Len(r.issued)], err |-> r.err]

NoClosure == [f |-> "none"]

items_reversed(rs) == Reverse(rs)

\* resources.items()
items(rs) == rs

Init ==
    /\ resources \in {[k \in DOMAIN r |-> Entry(r, k)] : r \in Records}
    /\ cloud = {}
    /\ pc = "idle"
    /\ op = "none"
    /\ prev = <<"none", "idle">>
    /\ idx = 0
    /\ ds_provider = "docker"
    /\ ds_kw = EmptyDict
    /\ merged_env = EmptyDict
    /\ dc = Compose
    /\ volumes = <<>>
    /\ results = EmptyDict
    /\ ret = NoRet
    /\ invoked = <<>>
    /\ stackOrder = <<>>
    /\ calls = <<>>
    /\ failed = NoFailure
    /\ ncalls = 0
    /\ goneAtStart = TRUE
    /\ arg_type = "none"
    /\ arg_name = <<>>
    /\ fn_arg = NoClosure
    /\ env_dict = EmptyDict
    /\ svc_out = None
    /\ out = "none"
    /\ response = NoResponse
    /\ config = NoConfig
    /\ infra_args = NoArgs
    /\ ops = <<>>
    /\ srv_status = EmptyDict

Idle == pc \in {"idle", "returned", "raised"}

Begin(o) ==
    /\ Idle
    /\ ncalls < MaxCalls
    /\ pc' = o
    /\ op' = o
    /\ prev' = <<op, pc>>
    /\ idx' = 0
    /\ ret' = NoRet
    /\ invoked' = <<>>
    /\ calls' = <<>>
    /\ failed' = NoFailure
    /\ ncalls' = ncalls + 1
    /\ goneAtStart' = (ObjectsOf(resources) \cap cloud = {})
    /\ UNCHANGED <<resources, cloud, stackOrder, arg_type, arg_name, fn_arg, env_dict, svc_out, out, response,
                   config, infra_args, ops, srv_status>>

(* resources.py: stack(resources, provider) *)

StackBegin ==
    /\ Begin("stack")
    /\ merged_env' = EmptyDict
    /\ dc' = Compose
    /\ volumes' = <<>>
    /\ results' = EmptyDict
    /\ UNCHANGED <<ds_provider, ds_kw>>

VolumeNames_dot_only(s) ==
    IF "volumes" \in DOMAIN s.d /\ s.d["volumes"].tag = "dict"
    THEN {v \in DOMAIN s.d["volumes"].d : ~startswith(v, ".")}
    ELSE {}

\* The names svc['volumes'] adds to the volumes list.
VolumeNames(s) ==
    IF "volumes" \in DOMAIN s.d /\ s.d["volumes"].tag = "dict"
    THEN {v \in DOMAIN s.d["volumes"].d : ~startswith(v, ".") /\ ~startswith(v, "/")}
    ELSE {}

\* One iteration of `for name, resource_fn in resources.items()`.
StackStep ==
    /\ pc = "stack"
    /\ idx < Len(resources)
    /\ LET e == items(resources)[idx + 1]
           p == resource_fn(e.fn)
       IN  \E r \in Runs(p.calls, cloud) :
             /\ invoked' = Append(invoked, e.name)
             /\ calls' = calls \o Log(e.name, "provision", r.issued)
             /\ failed' = Failure(e.name, "provision", r, failed)
             /\ cloud' = r.world
             /\ IF r.err = NoErr
                THEN /\ merged_env' = Update(merged_env, p.env)
                     /\ dc' = IF p.svc # None THEN svc(dc, e.name, p.svc.d) ELSE dc
                     /\ \E l \in ListsOfSet(IF p.svc # None THEN VolumeNames(p.svc) ELSE {}) :
                           volumes' = volumes \o l
                     /\ idx' = idx + 1
                     /\ UNCHANGED <<pc, ret>>
                ELSE /\ pc' = "raised"
                     /\ ret' = Raised(r.err)
                     /\ UNCHANGED <<merged_env, dc, volumes, idx>>
    /\ UNCHANGED <<resources, op, prev, ds_provider, ds_kw, results, stackOrder, ncalls,
                   goneAtStart, arg_type, arg_name, fn_arg, env_dict, svc_out, out, response,
                   config, infra_args, ops, srv_status>>

\* After the loop: declare each distinct volume, return the triple.
StackReturn ==
    /\ pc = "stack"
    /\ idx = Len(resources)
    /\ \E l \in ListsOfSet(Range(volumes)) :
          /\ dc' = DeclareAll(dc, l)
          /\ ret' = Returned(<<merged_env, dc', l>>)
    /\ pc' = "returned"
    /\ stackOrder' = invoked
    /\ UNCHANGED <<resources, cloud, op, prev, idx, ds_provider, ds_kw, merged_env, volumes,
                   results, invoked, calls, failed, ncalls, goneAtStart, arg_type, arg_name, fn_arg, env_dict,
                   svc_out, out, response,
                   config, infra_args, ops, srv_status>>

(* teardown.py: destroy_stack(resources, provider, **kw) *)

KwChoices == {EmptyDict}

DestroyBegin ==
    /\ Begin("destroy_stack")
    /\ ds_provider' \in PoolProviders
    /\ ds_kw' \in KwChoices
    /\ results' = EmptyDict
    /\ merged_env' = EmptyDict
    /\ dc' = Compose
    /\ volumes' = <<>>

TeardownOrder_unreversed(rs) == [k \in DOMAIN rs |-> rs[k].name]

\* reversed(list(resources.keys()))
TeardownOrder(rs) == Reverse([k \in DOMAIN rs |-> rs[k].name])

Lookup(rs, name) == (CHOOSE k \in DOMAIN rs : rs[k].name = name)

\* One iteration of the loop of destroy_stack.
DestroyStep ==
    /\ pc = "destroy_stack"
    /\ idx < Len(resources)
    /\ LET name == TeardownOrder(resources)[idx + 1]
           p == resource_fn(resources[Lookup(resources, name)].fn)
       IN  \E r \in Runs(p.calls, cloud) :
             /\ invoked' = Append(invoked, name)
             /\ IF r.err # NoErr
                THEN /\ pc' = "raised"
                     /\ ret' = Raised(r.err)
                     /\ cloud' = r.world
                     /\ calls' = calls \o Log(name, "provision", r.issued)
                     /\ failed' = Failure(name, "provision", r, failed)
                     /\ UNCHANGED <<results, idx>>
                ELSE \E d \in destroy(_infer_resource_type(p.env), name, ds_provider, ds_kw, r.world) :
                     /\ cloud' = d.world
                     /\ calls' = calls \o Log(name, "provision", r.issued) \o Log(name, "destroy", d.issued)
                     /\ failed' = Failure(name, "destroy", [issued |-> d.issued, err |-> d.inner], failed)
                     /\ IF d.err = NoErr
                        THEN /\ results' = Update(results, name :> d.value)
                             /\ idx' = idx + 1
                             /\ UNCHANGED <<pc, ret>>
                        ELSE /\ pc' = "raised"
                             /\ ret' = Raised(d.err)
                             /\ UNCHANGED <<results, idx>>
    /\ UNCHANGED <<resources, op, prev, ds_provider, ds_kw, merged_env, dc, volumes, stackOrder,
                   ncalls, goneAtStart, arg_type, arg_name, fn_arg, env_dict, svc_out, out, response,
                   config, infra_args, ops, srv_status>>

DestroyReturn ==
    /\ pc = "destroy_stack"
    /\ idx = Len(resources)
    /\ ret' = Returned(results)
    /\ pc' = "returned"
    /\ UNCHANGED <<resources, cloud, op, prev, idx, ds_provider, ds_kw, merged_env, dc, volumes,
                   results, invoked, stackOrder, calls, failed, ncalls, goneAtStart, arg_type, arg_name, fn_arg,
                   env_dict, svc_out, out, response,
                   config, infra_args, ops, srv_status>>

Next ==
    \/ StackBegin
    \/ StackStep
    \/ StackReturn
    \/ DestroyBegin
    \/ DestroyStep
    \/ DestroyReturn

Spec == Init /\ [][Next]_vars

-----------------------------------------------------------------------------
(* Properties of stack() and destroy_stack()                               *)

Names(rs) == [k \in DOMAIN rs |-> rs[k].name]

IsPrefix(a, b) == Len(a) <= Len(b) /\ a = SubSeq(b, 1, Len(a))

Position(s, x) == CHOOSE k \in DOMAIN s : s[k] = x

StackReturned == op = "stack" /\ pc = "returned"

DestroyReturned == op = "destroy_stack" /\ pc = "returned"

\* C1: destroy_stack visits the record's names (re-invoking each function,
\* then deleting) in exactly the reverse of the order in which stack()
\* visited them: at every moment of a teardown the names visited so far are
\* a prefix of the reversed stack() order, the remote calls follow that
\* order, and a teardown that returns has visited all of it.
C1_ReverseOrder ==
    (op = "destroy_stack" /\ stackOrder # <<>>) =>
        /\ IsPrefix(invoked, Reverse(stackOrder))
        /\ \A a, b \in DOMAIN calls :
              a < b => Position(Reverse(stackOrder), calls[a].resource)
                         <= Position(Reverse(stackOrder), calls[b].resource)
        /\ pc = "returned" => invoked = Reverse(stackOrder)

C1_Witness ==
    /\ DestroyReturned
    /\ Len(stackOrder) >= 2
    /\ invoked = Reverse(stackOrder)
    /\ invoked # stackOrder

\* C9: stack() iterates the record in insertion order and invokes each
\* provisioning function exactly once per call: the invocations so far are
\* a prefix of the record's names in insertion order, and a call that
\* returns has made exactly one invocation per name.
C9_InsertionOrderOnce ==
    op = "stack" =>
        /\ IsPrefix(invoked, Names(resources))
        /\ pc = "returned" =>
              /\ invoked = Names(resources)
              /\ \A k \in DOMAIN resources :
                    Cardinality({a \in DOMAIN invoked : invoked[a] = resources[k].name}) = 1

C9_Witness ==
    /\ StackReturned
    /\ Len(resources) >= 2
    /\ invoked = Names(resources)

Fragment(k) == resource_fn(resources[k].fn).env

LastWriter(key) ==
    CHOOSE k \in DOMAIN resources :
        /\ key \in DOMAIN Fragment(k)
        /\ \A j \in DOMAIN resources : key \in DOMAIN Fragment(j) => j <= k

\* C10: when two resources of a record produce the same environment key,
\* stack() does not fail, and the merged environment it returns holds every
\* key of every fragment, each with the value of the resource latest in
\* insertion order that produced it.  stack() raises only the error of a
\* remote call that failed.
C10_LastWriteWins ==
    /\ StackReturned =>
          \A k \in DOMAIN resources : \A key \in DOMAIN Fragment(k) :
              /\ key \in DOMAIN ret.value[1]
              /\ ret.value[1][key] = Fragment(LastWriter(key))[key]
    /\ (op = "stack" /\ pc = "raised") => (failed.err # NoErr /\ ret = Raised(failed.err))

C10_Witness ==
    /\ StackReturned
    /\ \E j, k \in DOMAIN resources : \E key \in DOMAIN Fragment(j) \cap DOMAIN Fragment(k) :
          /\ j < k
          /\ Fragment(j)[key] # Fragment(k)[key]
          /\ ret.value[1][key] = Fragment(k)[key]

Manifest(k) == resource_fn(resources[k].fn).svc

VolumeKeys(k) ==
    IF Manifest(k) # None /\ "volumes" \in DOMAIN Manifest(k).d /\ Manifest(k).d["volumes"].tag = "dict"
    THEN DOMAIN Manifest(k).d["volumes"].d
    ELSE {}

IsBindMount(v) == v # <<>> /\ Head(v) \in {".", "/"}

\* C8: the volume list stack() returns holds exactly the volume keys of the
\* present manifest fragments that are not bind-mount paths (keys starting
\* with '.' or '/'), each once however many services declare it; the same
\* volumes are declared on the Compose object.
C8_VolumeSet ==
    StackReturned =>
        LET named == {v \in UNION {VolumeKeys(k) : k \in DOMAIN resources} : ~IsBindMount(v)}
        IN  /\ Range(ret.value[3]) = named
            /\ Len(ret.value[3]) = Cardinality(named)
            /\ ret.value[2].volumes = named

C8_Witness ==
    /\ StackReturned
    /\ \E k \in DOMAIN resources : \E v \in VolumeKeys(k) : IsBindMount(v)
    /\ \E j, k \in DOMAIN resources : j # k /\ VolumeKeys(j) \cap VolumeKeys(k) # {}
    /\ ret.value[3] # <<>>

-----------------------------------------------------------------------------
(* destroy(resource_type, name, provider, **kw) called on its own, for      *)
(* every kind and provider, from every state of the objects it deletes.     *)

\* The objects a delete operation acts on.
Touched(b) == IF b.kind = "try" THEN {c.obj : c \in Range(b.plan)} ELSE {}

\* An object exists only inside an existing parent.
Worlds(objs) ==
    {w \in SUBSET (objs \cup {Parent(o) : o \in {x \in objs : HasParent(x)}}) :
        \A o \in w : HasParent(o) => Parent(o) \in w}

\* The provider argument: the tags the code knows, and one it does not.
ProviderTags == Providers \cup {"heroku"}

InitDestroy ==
    /\ arg_type \in dispatchers \cup {"unknown"}
    /\ arg_name \in Range(KeyNames)
    /\ ds_provider \in ProviderTags
    /\ ds_kw \in KwChoices
    /\ cloud \in IF arg_type \in dispatchers
                 THEN Worlds(Touched(Dispatch(arg_type, arg_name, ds_provider, ds_kw)))
                 ELSE {{}}
    /\ resources = <<>>
    /\ pc = "idle"
    /\ op = "none"
    /\ prev = <<"none", "idle">>
    /\ idx = 0
    /\ merged_env = EmptyDict
    /\ dc = Compose
    /\ volumes = <<>>
    /\ results = EmptyDict
    /\ ret = NoRet
    /\ invoked = <<>>
    /\ stackOrder = <<>>
    /\ calls = <<>>
    /\ failed = NoFailure
    /\ ncalls = 0
    /\ goneAtStart = TRUE
    /\ fn_arg = NoClosure
    /\ env_dict = EmptyDict
    /\ svc_out = None
    /\ out = "none"
    /\ response = NoResponse
    /\ config = NoConfig
    /\ infra_args = NoArgs
    /\ ops = <<>>
    /\ srv_status = EmptyDict

DestroyCall ==
    /\ pc = "idle"
    /\ \E d \in destroy(arg_type, arg_name, ds_provider, ds_kw, cloud) :
         /\ pc' = IF d.err = NoErr THEN "returned" ELSE "raised"
         /\ ret' = IF d.err = NoErr THEN Returned(d.value) ELSE Raised(d.err)
         /\ cloud' = d.world
         /\ calls' = Log(arg_name, "destroy", d.issued)
         /\ failed' = Failure(arg_name, "destroy", [issued |-> d.issued, err |-> d.inner], failed)
    /\ op' = "destroy"
    /\ UNCHANGED <<resources, prev, idx, ds_provider, ds_kw, merged_env, dc, volumes, results,
                   invoked, stackOrder, ncalls, goneAtStart, arg_type, arg_name, fn_arg,
                   env_dict, svc_out, out, response,
                   config, infra_args, ops, srv_status>>

NextDestroy == DestroyCall

SpecDestroy == InitDestroy /\ [][NextDestroy]_vars

-----------------------------------------------------------------------------
(* The provisioning functions and the classifier applied on their own: the  *)
(* classifier to every fragment made of the keys it reads, and to the       *)
(* fragment of every provisioning function under every provider.            *)

RecognisedKeys ==
    {"DATABASE_URL", "REDIS_URL", "QUEUE_URL", "QUEUE_TOPIC", "S3_ENDPOINT", "S3_BUCKET",
     "AZURE_STORAGE_CONNECTION_STRING", "GCS_BUCKET", "LLM_ENDPOINT", "LLM_MODEL", "SEARCH_URL",
     "FUNCTION_ARN", "FUNCTION_URL"}

KeyFragments == {[k \in ks |-> <<"value">>] : ks \in SUBSET RecognisedKeys}

\* Keys the classifier does not read.
OtherKeys == {"APP_ENV", "DB_PROVIDER"}

OtherFragments == {[k \in ks |-> <<"value">>] : ks \in SUBSET OtherKeys}

Engines == {"postgres", "mysql", "mongo", "sqlite"}

AllClosures ==
    {Closure("database", KeyNames[1], e, p) : e \in Engines, p \in Providers}
    \cup {Closure(f, KeyNames[1], "", p) :
            f \in {"cache", "queue", "bucket", "llm", "function", "search"}, p \in Providers}

InitPure ==
    /\ \/ fn_arg = NoClosure /\ env_dict \in KeyFragments \cup OtherFragments
       \/ fn_arg \in AllClosures /\ env_dict = EmptyDict
    /\ resources = <<>>
    /\ cloud = {}
    /\ pc = "idle"
    /\ op = "none"
    /\ prev = <<"none", "idle">>
    /\ idx = 0
    /\ ds_provider = "docker"
    /\ ds_kw = EmptyDict
    /\ merged_env = EmptyDict
    /\ dc = Compose
    /\ volumes = <<>>
    /\ results = EmptyDict
    /\ ret = NoRet
    /\ invoked = <<>>
    /\ stackOrder = <<>>
    /\ calls = <<>>
    /\ failed = NoFailure
    /\ ncalls = 0
    /\ goneAtStart = TRUE
    /\ arg_type = "none"
    /\ arg_name = <<>>
    /\ svc_out = None
    /\ out = "none"
    /\ response = NoResponse
    /\ config = NoConfig
    /\ infra_args = NoArgs
    /\ ops = <<>>
    /\ srv_status = EmptyDict

\* env, svc = resource_fn(), every remote call having succeeded
Provision ==
    /\ pc = "idle"
    /\ fn_arg # NoClosure
    /\ LET p == resource_fn(fn_arg)
       IN  /\ env_dict' = p.env
           /\ svc_out' = p.svc
           /\ calls' = Log(fn_arg.name, "provision", p.calls)
           /\ cloud' = cloud \cup {c.obj : c \in {x \in Range(p.calls) : x.verb = "create"}}
    /\ pc' = "provisioned"
    /\ op' = "provision"
    /\ UNCHANGED <<resources, prev, idx, ds_provider, ds_kw, merged_env, dc, volumes, results, ret,
                   invoked, stackOrder, failed, ncalls, goneAtStart, arg_type, arg_name, fn_arg, out, response,
                   config, infra_args, ops, srv_status>>

\* rtype = _infer_resource_type(env)
Classify ==
    /\ \/ pc = "provisioned"
       \/ pc = "idle" /\ fn_arg = NoClosure
    /\ out' = _infer_resource_type(env_dict)
    /\ pc' = "classified"
    /\ UNCHANGED <<resources, cloud, op, prev, idx, ds_provider, ds_kw, merged_env, dc, volumes,
                   results, ret, invoked, stackOrder, calls, failed, ncalls, goneAtStart,
                   arg_type, arg_name, fn_arg, env_dict, svc_out, response,
                   config, infra_args, ops, srv_status>>

\* results[name] = destroy(rtype, name, provider, **kw)
DestroyClassified ==
    /\ pc = "classified"
    /\ \E p \in Providers :
         /\ ds_provider' = p
         /\ arg_type' = out
         /\ arg_name' = KeyNames[1]
         /\ \E d \in destroy(out, KeyNames[1], p, ds_kw, cloud) :
              /\ pc' = IF d.err = NoErr THEN "returned" ELSE "raised"
              /\ ret' = IF d.err = NoErr THEN Returned(d.value) ELSE Raised(d.err)
              /\ cloud' = d.world
              /\ calls' = calls \o Log(KeyNames[1], "destroy", d.issued)
              /\ failed' = Failure(KeyNames[1], "destroy", [issued |-> d.issued, err |-> d.inner], failed)
    /\ op' = "destroy"
    /\ UNCHANGED <<resources, prev, idx, ds_kw, merged_env, dc, volumes, results, invoked,
                   stackOrder, ncalls, goneAtStart, fn_arg, env_dict, svc_out, out, response,
                   config, infra_args, ops, srv_status>>

NextPure == Provision \/ Classify \/ DestroyClassified

SpecPure == InitPure /\ [][NextPure]_vars

-----------------------------------------------------------------------------
(* Properties of teardown                                                  *)

NotFoundOutcome(o) == o["destroyed"] = FALSE /\ IsInfix(<<"not found">>, o["message"])

\* Every entry of the record is a cloud resource provisioned at provider p.
C2_ProvisionedAt(p) ==
    \A k \in DOMAIN resources :
        /\ ObjectsOf(<<resources[k]>>) # {}
        /\ resources[k].fn.provider = p

\* C2: teardown is idempotent: when destroy_stack is called a second time
\* on a record of cloud resources, at the provider they were provisioned at,
\* and the resources are already gone, the call returns destroyed:false
\* with a not-found message for every entry of the record, and raises
\* nothing but the error of a remote call that failed for another reason
\* than the resource being absent.
C2_Idempotent ==
    (op = "destroy_stack" /\ prev = <<"destroy_stack", "returned">> /\ goneAtStart
       /\ C2_ProvisionedAt(ds_provider)) =>
        /\ pc = "returned" => \A k \in DOMAIN resources : NotFoundOutcome(results[resources[k].name])
        /\ pc = "raised" => ret.err \in OtherErrors(failed.call)

\* C3: during destroy_stack no remote create call is issued, so the set of
\* objects existing at the cloud providers never grows during teardown.
C3_NoCreateDuringTeardown ==
    op = "destroy_stack" => \A k \in DOMAIN calls : calls[k].call.verb # "create"

\* The fixed not-found substrings of each vendor's delete calls, per kind.
C4_Substrings(kind, p) ==
    CASE p = "aws" /\ kind = "database" -> {<<"DBInstance", "NotFound">>}
      [] p = "aws" /\ kind = "cache"    -> {<<"CacheCluster", "NotFound">>}
      [] p = "aws" /\ kind = "queue"    -> {<<"NonExistentQueue">>, <<"QueueDoesNotExist">>}
      [] p = "aws" /\ kind = "bucket"   -> {<<"NoSuchBucket">>}
      [] p = "aws" /\ kind \in {"search", "function"} -> {<<"Resource", "NotFound", "Exception">>}
      [] p = "azure" /\ kind = "bucket" -> {<<"Resource", "NotFound">>, <<"NotFound">>}
      [] p = "azure" /\ kind \in {"database", "cache", "queue", "llm", "search", "function"} ->
             {<<"Resource", "NotFound">>}
      [] p = "gcp" /\ kind \in {"queue", "bucket", "function"} ->
             {<<"NOT_FOUND">>, <<"does not exist">>, <<"Does Not Exist">>}
      [] OTHER -> {}

\* C4: for every cloud provider and resource kind with a delete branch, when
\* the vendor's delete call fails with an error containing that vendor's
\* fixed not-found substring, destroy returns destroyed:false with a message
\* containing "not found", and does not raise.
C4_NotFoundNormalised ==
    (op = "destroy" /\ \E sub \in C4_Substrings(arg_type, ds_provider) : IsInfix(sub, failed.err.text)) =>
        /\ pc = "returned"
        /\ NotFoundOutcome(ret.value)

C4_Witness ==
    /\ op = "destroy"
    /\ arg_type = "queue"
    /\ ds_provider = "gcp"
    /\ IsInfix(<<"Does Not Exist">>, failed.err.text)
    /\ pc = "returned"
    /\ NotFoundOutcome(ret.value)

\* C5: when a vendor delete call fails with an error that is not a
\* not-found error, destroy_stack raises that very error, the failing call
\* is the last remote call it issues, and the resources that come later in
\* the teardown order are not visited: none is invoked, none gets a delete
\* call, none gets an outcome.
C5_AbortOnError ==
    (op = "destroy_stack" /\ failed.phase = "destroy" /\ failed.err \in OtherErrors(failed.call)) =>
        /\ pc = "raised"
        /\ ret = Raised(failed.err)
        /\ calls[Len(calls)] = [resource |-> failed.resource, phase |-> "destroy", call |-> failed.call]
        /\ invoked = SubSeq(TeardownOrder(resources), 1, idx + 1)
        /\ failed.resource = invoked[Len(invoked)]
        /\ \A k \in DOMAIN calls : calls[k].resource \in Range(invoked)
        /\ DOMAIN results = Range(SubSeq(invoked, 1, idx))

C5_Witness ==
    /\ op = "destroy_stack"
    /\ pc = "raised"
    /\ failed.phase = "destroy"
    /\ failed.err \in OtherErrors(failed.call)
    /\ ret = Raised(failed.err)
    /\ Len(resources) >= 2
    /\ Len(invoked) = 1

-----------------------------------------------------------------------------
(* Properties of the classifier                                            *)

C6_Order == <<"database", "cache", "queue", "bucket", "llm", "search", "function">>

C6_Keys(kind) ==
    CASE kind = "database" -> {"DATABASE_URL"}
      [] kind = "cache"    -> {"REDIS_URL"}
      [] kind = "queue"    -> {"QUEUE_URL", "QUEUE_TOPIC"}
      [] kind = "bucket"   -> {"S3_ENDPOINT", "S3_BUCKET", "AZURE_STORAGE_CONNECTION_STRING", "GCS_BUCKET"}
      [] kind = "llm"      -> {"LLM_ENDPOINT", "LLM_MODEL"}
      [] kind = "search"   -> {"SEARCH_URL"}
      [] kind = "function" -> {"FUNCTION_ARN", "FUNCTION_URL"}

C6_Holds(kind, env) == C6_Keys(kind) \cap DOMAIN env # {}

\* C6: classifier precedence is total and fixed: for every fragment made of
\* the recognised keys, _infer_resource_type returns the first kind in the
\* order database > cache > queue > bucket > llm > search > function whose
\* key-presence predicate holds, and unknown when none holds; a fragment
\* with both DATABASE_URL and QUEUE_URL classifies as database.
C6_Precedence ==
    (pc = "classified" /\ fn_arg = NoClosure) =>
        /\ \A k \in DOMAIN C6_Order :
              (C6_Holds(C6_Order[k], env_dict) /\ \A j \in 1..(k - 1) : ~C6_Holds(C6_Order[j], env_dict))
                  => out = C6_Order[k]
        /\ (\A k \in DOMAIN C6_Order : ~C6_Holds(C6_Order[k], env_dict)) => out = "unknown"
        /\ {"DATABASE_URL", "QUEUE_URL"} \subseteq DOMAIN env_dict => out = "database"

C6_Witness ==
    /\ pc = "classified"
    /\ fn_arg = NoClosure
    /\ {"DATABASE_URL", "QUEUE_URL", "FUNCTION_ARN"} \subseteq DOMAIN env_dict
    /\ out = "database"

\* The providers each provisioning function has a branch for.
C7_Supports(c) ==
    CASE c.f = "database" -> \/ c.provider = "docker" /\ c.engine \in {"postgres", "mysql", "mongo"}
                             \/ c.provider \in {"aws", "azure"}
      [] c.f = "cache"    -> c.provider \in {"docker", "aws", "azure"}
      [] c.f = "queue"    -> c.provider \in {"docker", "aws", "azure", "gcp"}
      [] c.f = "bucket"   -> c.provider \in {"docker", "aws", "azure", "gcp"}
      [] c.f = "llm"      -> c.provider \in {"docker", "openai", "azure", "aws"}
      [] c.f = "function" -> c.provider \in {"aws", "azure", "gcp"}
      [] c.f = "search"   -> c.provider \in {"docker", "aws", "azure"}

\* C7: kind round trip: for every resource kind K and every provider K's
\* provisioning function supports, the environment fragment the function
\* returns is classified by _infer_resource_type as K.
C7_KindRoundTrip ==
    (pc = "classified" /\ fn_arg # NoClosure /\ C7_Supports(fn_arg)) => out = fn_arg.f

C7_Witness ==
    /\ pc = "classified"
    /\ fn_arg # NoClosure
    /\ fn_arg.f = "queue"
    /\ fn_arg.provider = "gcp"
    /\ "QUEUE_TOPIC" \in DOMAIN env_dict
    /\ out = "queue"
-----------------------------------------------------------------------------
(* The scenario record {db: local postgres, cache: local redis}.           *)

C11_Record ==
    << [name |-> KeyNames[1], fn |-> Closure("database", KeyNames[1], "postgres", "docker")],
       [name |-> KeyNames[2], fn |-> Closure("cache", KeyNames[2], "", "docker")] >>

\* C11: for the record {db: local postgres database, cache: local redis
\* cache}, stack() returns; its Compose object holds exactly the two
\* services db and cache, each the manifest fragment of its function; the
\* volume list is {pgdata, redis-data}, each once; and the merged
\* environment has both DATABASE_URL and REDIS_URL.
C11_Scenario ==
    (op = "stack" /\ resources = C11_Record) =>
        /\ pc # "raised"
        /\ pc = "returned" =>
              /\ DOMAIN ret.value[2].services = {KeyNames[1], KeyNames[2]}
              /\ ret.value[2].services[KeyNames[1]] = database(C11_Record[1].fn).svc.d
              /\ ret.value[2].services[KeyNames[2]] = cache(C11_Record[2].fn).svc.d
              /\ Range(ret.value[3]) = {pgdata, redis_data}
              /\ Len(ret.value[3]) = 2
              /\ {"DATABASE_URL", "REDIS_URL"} \subseteq DOMAIN ret.value[1]

C11_Witness ==
    /\ StackReturned
    /\ resources = C11_Record
    /\ KeyNames[2] = <<"c", "a", "c", "h", "e">>
    /\ Cardinality(DOMAIN ret.value[2].services) = 2
-----------------------------------------------------------------------------
(* The local-container provider.                                           *)

LocalDestroy == op = "destroy" /\ ds_provider = "docker"

\* The kind destroy_stack recovers for entry k of the scenario record.
C12_ScenarioKind(k) == _infer_resource_type(resource_fn(C11_Record[k].fn).env)

NoOpSuccess == pc = "returned" /\ ret.value["destroyed"] = TRUE /\ calls = <<>>

\* C12 as stated: under the local-container provider the delete operation
\* of every kind returns destroyed:true and issues no call.
C12_EveryKindNoOp ==
    (LocalDestroy /\ arg_type \in dispatchers) => NoOpSuccess

\* C12, amended: under the local-container provider the delete operation of
\* every kind that has a local form (database, cache, queue, bucket, llm,
\* search) returns destroyed:true and issues no call, and so do the destroy
\* calls destroy_stack makes for the entries of the local {db, cache}
\* record; kind function has no local branch: destroy returns
\* destroyed:false "Unsupported provider: docker", also without a call.
C12_LocalNoOp ==
    /\ (LocalDestroy /\ arg_type \in dispatchers \ {"function"}) => NoOpSuccess
    /\ (LocalDestroy /\ \E k \in DOMAIN C11_Record :
            arg_type = C12_ScenarioKind(k) /\ arg_name = C11_Record[k].name) => NoOpSuccess
    /\ (LocalDestroy /\ arg_type = "function") =>
          /\ pc = "returned"
          /\ ret.value["destroyed"] = FALSE
          /\ ret.value["message"] = <<"Unsupported provider: ", "docker">>
          /\ calls = <<>>

C12_Witness ==
    /\ LocalDestroy
    /\ arg_type = C12_ScenarioKind(2)
    /\ arg_name = C11_Record[2].name
    /\ NoOpSuccess
    /\ ret.value["message"] = <<"Remove via docker compose down -v">>
-----------------------------------------------------------------------------
(* Fragments of no kind.                                                   *)

MatchesNoPredicate(env) == \A k \in DOMAIN C6_Order : ~C6_Holds(C6_Order[k], env)

\* C13: a fragment that matches no classifier predicate, the empty fragment
\* of an unsupported provisioning combination included, is classified
\* unknown; destroy for kind unknown, under any provider, returns an outcome
\* with destroyed:false, issues no call and does not raise.
C13_UnknownRefused ==
    /\ (pc # "idle" /\ fn_arg # NoClosure /\ ~C7_Supports(fn_arg)) => env_dict = EmptyDict
    /\ (pc \in {"classified", "returned", "raised"} /\ MatchesNoPredicate(env_dict)) => out = "unknown"
    /\ (op = "destroy" /\ arg_type = "unknown") =>
          /\ pc = "returned"
          /\ ret.value["destroyed"] = FALSE
          /\ \A k \in DOMAIN calls : calls[k].phase # "destroy"
          /\ cloud = {}

C13_Witness ==
    /\ op = "destroy"
    /\ fn_arg # NoClosure
    /\ ~C7_Supports(fn_arg)
    /\ arg_type = "unknown"
    /\ ds_provider = "aws"
    /\ pc = "returned"
    /\ ret.value["message"] = <<"Unknown resource type: ", "unknown">>
\* C14: destroying a resource of kind function under the local-container
\* provider is explicitly rejected or treated as a no-op: destroy does not
\* raise, returns an outcome dict that says whether the function was
\* destroyed and why, and issues no vendor call.
C14_LocalFunction ==
    (LocalDestroy /\ arg_type = "function") =>
        /\ pc = "returned"
        /\ ret.kind = "return"
        /\ {"destroyed", "message", "resource", "provider"} \subseteq DOMAIN ret.value
        /\ ret.value["destroyed"] \in BOOLEAN
        /\ ret.value["message"] # <<>>
        /\ ret.value["resource"] = arg_name
        /\ calls = <<>>
        /\ failed = NoFailure

C14_Witness ==
    /\ LocalDestroy
    /\ arg_type = "function"
    /\ pc = "returned"
    /\ ret.value["destroyed"] = FALSE
    /\ ret.value["message"] = <<"Unsupported provider: ", "docker">>
-----------------------------------------------------------------------------
(* Unsupported kind/provider pairs.                                        *)

\* The providers the delete operation of each kind has a branch for.
C15_HasBranch(kind, p) ==
    CASE kind = "database" -> p \in {"docker", "aws", "azure"}
      [] kind = "cache"    -> p \in {"docker", "aws", "azure"}
      [] kind = "queue"    -> p \in {"docker", "aws", "azure", "gcp"}
      [] kind = "bucket"   -> p \in {"docker", "aws", "azure", "gcp"}
      [] kind = "llm"      -> p \in {"docker", "openai", "azure", "aws"}
      [] kind = "search"   -> p \in {"docker", "aws", "azure"}
      [] kind = "function" -> p \in {"aws", "azure", "gcp"}

\* C15: for every known kind and every provider tag the kind's delete
\* operation has no branch for, destroy does not raise, returns
\* destroyed:false with the message "Unsupported provider: <tag>", and
\* issues no vendor call.
C15_Unsupported ==
    (op = "destroy" /\ arg_type \in dispatchers /\ ~C15_HasBranch(arg_type, ds_provider)) =>
        /\ pc = "returned"
        /\ ret.value["destroyed"] = FALSE
        /\ ret.value["message"] = <<"Unsupported provider: ", ds_provider>>
        /\ ret.value["provider"] = ds_provider
        /\ calls = <<>>
        /\ failed = NoFailure

C15_Witness ==
    /\ op = "destroy"
    /\ arg_type = "search"
    /\ ds_provider = "gcp"
    /\ pc = "returned"
    /\ ret.value["destroyed"] = FALSE
    /\ calls = <<>>
-----------------------------------------------------------------------------
(* teardown.py: status(resource_type, name, provider, **kw).               *)

\* subprocess.run(['docker', 'inspect', ...]) without check=True: the
\* command cannot be started and run() raises, or it runs and run() returns
\* its return code and output.
DockerInspectErrors == {Err("FileNotFoundError", <<"No such file or directory: 'docker'">>)}

DockerInspectResults ==
    {[returncode |-> 0, stdout |-> <<"running", "\n">>],
     [returncode |-> 0, stdout |-> <<"exited", "\n">>],
     [returncode |-> 1, stdout |-> <<"\n">>]}

\* The status strings a vendor may answer.
StatusStrings ==
    {"available", "Available", "creating", "Active", "Pending", "Ready", "Succeeded", "Running",
     "Stopped", ""}

\* The probe of one kind under aws or azure: the describe call, the field of
\* the answer it reads ("string", "bool" or "nothing"), whether a missing
\* field raises (result[...]) or reads as '' (result.get(..., '')), the key
\* the field is reported under, and the value that means healthy.
Probe(call, reads, strict, key, healthy) ==
    [kind |-> "probe", call |-> call, reads |-> reads, strict |-> strict, key |-> key,
     healthy |-> healthy]

NoProbe == [kind |-> "none"]

StatusProbe(resource_type, name, provider) ==
    IF provider = "aws" THEN
        CASE resource_type = "database" ->
                 Probe(Call("aws", <<"rds", "describe-db-instances">>, "read", "db-instance", name),
                       "string", TRUE, "status", "available")
          [] resource_type = "cache" ->
                 Probe(Call("aws", <<"elasticache", "describe-cache-clusters">>, "read", "cache-cluster", name),
                       "string", TRUE, "status", "available")
          [] resource_type = "bucket" ->
                 Probe(Call("aws", <<"s3api", "head-bucket">>, "read", "s3-bucket", name),
                       "nothing", FALSE, "", "")
          [] resource_type = "search" ->
                 Probe(Call("aws", <<"opensearch", "describe-domain">>, "read", "opensearch-domain", name),
                       "bool", TRUE, "processing", FALSE)
          [] resource_type = "function" ->
                 Probe(Call("aws", <<"lambda", "get-function">>, "read", "lambda-function", name),
                       "string", TRUE, "state", "Active")
          [] OTHER -> NoProbe
    ELSE IF provider = "azure" THEN
        CASE resource_type = "database" ->
                 Probe(Call("azure", <<"postgres", "flexible-server", "show">>, "read", "postgres-server", name),
                       "string", FALSE, "state", "Ready")
          [] resource_type = "cache" ->
                 Probe(Call("azure", <<"redis", "show">>, "read", "redis", name),
                       "string", FALSE, "status", "Succeeded")
          [] resource_type = "search" ->
                 Probe(Call("azure", <<"search", "service", "show">>, "read", "search-service", name),
                       "string", FALSE, "status", "Succeeded")
          [] resource_type = "function" ->
                 Probe(Call("azure", <<"functionapp", "show">>, "read", "functionapp", name),
                       "string", FALSE, "state", "Running")
          [] OTHER -> NoProbe
    ELSE NoProbe

Answer(value) == [kind |-> "answer", value |-> value]

AnswerWithoutField == [kind |-> "answer-without-field"]

\* What the vendor may answer to a probe of an object that exists.
Answers(b) ==
    CASE b.reads = "string"  -> {Answer(s) : s \in StatusStrings} \cup {AnswerWithoutField}
      [] b.reads = "bool"    -> {Answer(v) : v \in BOOLEAN} \cup {AnswerWithoutField}
      [] b.reads = "nothing" -> {Answer("")}

IsHealthy_nonempty(value, healthy) == value # ""

\* status_val == 'available'
IsHealthy(value, healthy) == value = healthy

KeyError == Err("KeyError", <<"'field'">>)

Health(healthy, provider, name) == ("healthy" :> healthy) @@ ("provider" :> provider) @@ ("name" :> name)

ProbeFailed(provider, name, e) ==
    Health(FALSE, provider, name) @@ ("message" :> (<<"Resource not found or error: ">> \o e.text))

\* The ways status(resource_type, name, provider, **kw) can run from
\* `world`: [issued, response, inner, err, value], as for destroy.
status(resource_type, name, provider, kw, world) ==
    IF provider = "docker" THEN
        LET c == Call("docker", <<"inspect", "--format", "{{.State.Status}}">>, "read", "container", name)
        IN  {[issued |-> <<c>>, response |-> NoResponse, inner |-> e, err |-> e, value |-> EmptyDict] :
                e \in DockerInspectErrors}
            \cup {[issued |-> <<c>>, response |-> Answer(r), inner |-> NoErr, err |-> NoErr,
                   value |-> Health(r.returncode = 0 /\ IsInfix(<<"running">>, r.stdout), "docker", name)] :
                    r \in DockerInspectResults}
    ELSE
        LET b == StatusProbe(resource_type, name, provider)
        IN  IF b.kind = "none" THEN
                {[issued |-> <<>>, response |-> NoResponse, inner |-> NoErr, err |-> NoErr,
                  value |-> Health(FALSE, provider, name)
                            @@ ("message" :> <<"Unsupported provider or resource type">>)]}
            ELSE
                {[issued |-> <<b.call>>, response |-> NoResponse, inner |-> e, err |-> NoErr,
                  value |-> ProbeFailed(provider, name, e)] : e \in Errors(b.call, world)}
                \cup (IF CanSucceed(b.call, world)
                      THEN {[issued |-> <<b.call>>, response |-> a,
                             inner |-> NoErr,
                             err |-> NoErr,
                             value |->
                                IF b.reads = "nothing" THEN Health(TRUE, provider, name)
                                ELSE IF a = AnswerWithoutField /\ b.strict
                                     THEN ProbeFailed(provider, name, KeyError)
                                ELSE IF a = AnswerWithoutField
                                     THEN Health(IsHealthy("", b.healthy), provider, name) @@ (b.key :> "")
                                ELSE Health(IsHealthy(a.value, b.healthy), provider, name)
                                     @@ (b.key :> a.value)] :
                               a \in Answers(b)}
                      ELSE {})

StatusTouched(resource_type, name, provider) ==
    LET b == StatusProbe(resource_type, name, provider)
    IN  IF b.kind = "probe" THEN {b.call.obj} ELSE {}

InitStatus ==
    /\ arg_type \in dispatchers \cup {"unknown"}
    /\ arg_name \in Range(KeyNames)
    /\ ds_provider \in ProviderTags
    /\ ds_kw \in KwChoices
    /\ cloud \in Worlds(StatusTouched(arg_type, arg_name, ds_provider))
    /\ resources = <<>>
    /\ pc = "idle"
    /\ op = "none"
    /\ prev = <<"none", "idle">>
    /\ idx = 0
    /\ merged_env = EmptyDict
    /\ dc = Compose
    /\ volumes = <<>>
    /\ results = EmptyDict
    /\ ret = NoRet
    /\ invoked = <<>>
    /\ stackOrder = <<>>
    /\ calls = <<>>
    /\ failed = NoFailure
    /\ ncalls = 0
    /\ goneAtStart = TRUE
    /\ fn_arg = NoClosure
    /\ env_dict = EmptyDict
    /\ svc_out = None
    /\ out = "none"
    /\ response = NoResponse
    /\ config = NoConfig
    /\ infra_args = NoArgs
    /\ ops = <<>>
    /\ srv_status = EmptyDict

StatusCall ==
    /\ pc = "idle"
    /\ \E r \in status(arg_type, arg_name, ds_provider, ds_kw, cloud) :
         /\ pc' = IF r.err = NoErr THEN "returned" ELSE "raised"
         /\ ret' = IF r.err = NoErr THEN Returned(r.value) ELSE Raised(r.err)
         /\ calls' = Log(arg_name, "status", r.issued)
         /\ failed' = Failure(arg_name, "status", [issued |-> r.issued, err |-> r.inner], failed)
         /\ response' = r.response
    /\ op' = "status"
    /\ UNCHANGED <<resources, cloud, prev, idx, ds_provider, ds_kw, merged_env, dc, volumes, results,
                   invoked, stackOrder, ncalls, goneAtStart, arg_type, arg_name, fn_arg,
                   env_dict, svc_out, out, config, infra_args, ops, srv_status>>

NextStatus == StatusCall

SpecStatus == InitStatus /\ [][NextStatus]_vars

\* The probe call did not give an answer: it raised, could not be started,
\* or (docker inspect) exited with a non-zero return code.
ProbeCallFailed ==
    \/ failed.err # NoErr
    \/ response.kind = "answer" /\ ds_provider = "docker" /\ response.value.returncode # 0

\* C16: the health prober never raises: for every kind and provider, and
\* for any failure of the underlying probe call, status returns a map with
\* healthy:false and a descriptive message.
C16_NeverRaises ==
    op = "status" =>
        /\ pc = "returned"
        /\ ProbeCallFailed =>
              /\ ret.value["healthy"] = FALSE
              /\ "message" \in DOMAIN ret.value
              /\ ret.value["message"] # <<>>

\* The status string that means healthy, per the specification.
C17_HealthyValue(kind, p) ==
    CASE p = "aws" /\ kind \in {"database", "cache"}   -> "available"
      [] p = "aws" /\ kind = "function"                -> "Active"
      [] p = "azure" /\ kind = "database"              -> "Ready"
      [] p = "azure" /\ kind \in {"cache", "search"}   -> "Succeeded"
      [] p = "azure" /\ kind = "function"              -> "Running"

C17_HasStatusString(kind, p) ==
    \/ p = "aws" /\ kind \in {"database", "cache", "function"}
    \/ p = "azure" /\ kind \in {"database", "cache", "search", "function"}

\* C17: for a cloud provider, when the vendor answers with a status string,
\* status returns healthy:true exactly when the string equals the fixed
\* healthy value of that kind and provider, and healthy:false for every
\* other string; the string is reported back.
C17_HealthyExactly ==
    (op = "status" /\ C17_HasStatusString(arg_type, ds_provider) /\ response.kind = "answer") =>
        /\ pc = "returned"
        /\ ret.value["healthy"] = (response.value = C17_HealthyValue(arg_type, ds_provider))
        /\ \E key \in {"status", "state"} : key \in DOMAIN ret.value /\ ret.value[key] = response.value

C17_Witness ==
    /\ op = "status"
    /\ arg_type = "database"
    /\ ds_provider = "azure"
    /\ response = Answer("Ready")
    /\ ret.value["healthy"] = TRUE
-----------------------------------------------------------------------------
(* stack() on records of provisioning functions that issue no remote call: *)
(* every local-container combination, the cloud combinations that only     *)
(* compute their fragment, and every unsupported combination.              *)

OfflineClosures == {x \in AllClosures : resource_fn(x).calls = <<>>}

\* Entry k of a record binds a function to the name KeyNames[k].
OfflineRecord(r) ==
    [k \in DOMAIN r |->
        [name |-> KeyNames[k], fn |-> Closure(r[k].f, KeyNames[k], r[k].engine, r[k].provider)]]

InitCompose ==
    /\ \E n \in 1..MaxRes : \E r \in [1..n -> OfflineClosures] : resources = OfflineRecord(r)
    /\ cloud = {}
    /\ pc = "idle"
    /\ op = "none"
    /\ prev = <<"none", "idle">>
    /\ idx = 0
    /\ ds_provider = "docker"
    /\ ds_kw = EmptyDict
    /\ merged_env = EmptyDict
    /\ dc = Compose
    /\ volumes = <<>>
    /\ results = EmptyDict
    /\ ret = NoRet
    /\ invoked = <<>>
    /\ stackOrder = <<>>
    /\ calls = <<>>
    /\ failed = NoFailure
    /\ ncalls = 0
    /\ goneAtStart = TRUE
    /\ arg_type = "none"
    /\ arg_name = <<>>
    /\ fn_arg = NoClosure
    /\ env_dict = EmptyDict
    /\ svc_out = None
    /\ out = "none"
    /\ response = NoResponse
    /\ config = NoConfig
    /\ infra_args = NoArgs
    /\ ops = <<>>
    /\ srv_status = EmptyDict

NextCompose == StackBegin \/ StackStep \/ StackReturn

SpecCompose == InitCompose /\ [][NextCompose]_vars
\* The next entry stack() visits.
NextEntry == items(resources)[idx + 1]

\* C18: a provisioning function called for a provider/kind combination it
\* does not support returns an empty environment fragment and no manifest
\* fragment, without raising and without a remote call, and stack() merges
\* that result as nothing: the iteration that visits such an entry invokes
\* the function and leaves the merged environment, the Compose object, the
\* volume list and the vendors as they were.
C18_UnsupportedIsNothing ==
    [][(pc = "stack" /\ idx < Len(resources) /\ ~C7_Supports(NextEntry.fn)) =>
          /\ resource_fn(NextEntry.fn) = Pair(EmptyDict, None, <<>>)
          /\ invoked' = Append(invoked, NextEntry.name)
          /\ pc' = "stack"
          /\ idx' = idx + 1
          /\ calls' = calls
          /\ cloud' = cloud
          /\ merged_env' = merged_env
          /\ dc' = dc
          /\ volumes' = volumes]_vars

C18_Witness ==
    /\ StackReturned
    /\ Len(resources) = 2
    /\ resources[1].fn = Closure("database", KeyNames[1], "postgres", "docker")
    /\ resources[2].fn = Closure("cache", KeyNames[2], "", "gcp")
    /\ invoked = Names(resources)
    /\ DOMAIN ret.value[1] = {"DATABASE_URL", "DB_PROVIDER"}
    /\ DOMAIN ret.value[2].services = {KeyNames[1]}
    /\ ret.value[3] = <<pgdata>>
-----------------------------------------------------------------------------
(* The fragments of the local-container provider.                          *)

Provisioned == pc = "provisioned" /\ fn_arg # NoClosure

\* A present manifest fragment with an image and a named volume, and a
\* non-empty environment fragment.
LocalService ==
    /\ svc_out # None
    /\ "image" \in DOMAIN svc_out.d
    /\ svc_out.d["image"] # <<>>
    /\ "volumes" \in DOMAIN svc_out.d
    /\ svc_out.d["volumes"].tag = "dict"
    /\ \E v \in DOMAIN svc_out.d["volumes"].d : ~IsBindMount(v)
    /\ env_dict # EmptyDict

\* C19 as stated: for the local-container provider every provisioning
\* function, for every option value, returns a present manifest fragment
\* with an image and a named volume, and a non-empty environment fragment.
C19_EveryFunctionLocal ==
    (Provisioned /\ fn_arg.provider = "docker") => LocalService

\* C19, amended: for the local-container provider every provisioning
\* function that has a local branch (database with engine postgres, mysql
\* or mongo; cache; queue; bucket; llm; search) returns, without a remote
\* call, a present manifest fragment with an image and a named volume, and
\* a non-empty environment fragment; function, and database with any other
\* engine, return the empty fragment and no manifest fragment.
C19_LocalFragments ==
    (Provisioned /\ fn_arg.provider = "docker") =>
        /\ calls = <<>>
        /\ C7_Supports(fn_arg) => LocalService
        /\ ~C7_Supports(fn_arg) =>
              /\ fn_arg.f = "function" \/ (fn_arg.f = "database" /\ fn_arg.engine = "sqlite")
              /\ env_dict = EmptyDict
              /\ svc_out = None

C19_Witness ==
    /\ Provisioned
    /\ fn_arg = Closure("database", KeyNames[1], "mongo", "docker")
    /\ LocalService
    /\ DOMAIN svc_out.d["volumes"].d = {mongodata}
-----------------------------------------------------------------------------
(* Bucket deletion.                                                        *)

\* The call that removes what the bucket holds: aws `s3 rm --recursive`,
\* azure `storage container delete` (the container and its blobs), gcp
\* `storage rm -r` (the objects, then the bucket, in one call).
C20_EmptyStep(c) ==
    c.cmd \in {<<"s3", "rm", "--recursive">>, <<"storage", "container", "delete">>, <<"storage", "rm", "-r">>}

\* The vendor-level delete that follows it: aws `s3api delete-bucket`,
\* azure `storage account delete`.
C20_VendorDelete(c) == c.cmd \in {<<"s3api", "delete-bucket">>, <<"storage", "account", "delete">>}

CloudBucketDestroy == op = "destroy" /\ arg_type = "bucket" /\ ds_provider \in {"aws", "azure", "gcp"}

\* C20: for every cloud provider, bucket deletion removes the bucket's
\* contents before it issues the vendor-level delete call: the first call
\* is the empty step, every vendor-level delete comes after an empty step
\* that succeeded, and no vendor-level delete is issued when the empty step
\* failed.
C20_EmptyBeforeDelete ==
    CloudBucketDestroy =>
        /\ calls # <<>>
        /\ C20_EmptyStep(calls[1].call)
        /\ \A k \in DOMAIN calls :
              C20_VendorDelete(calls[k].call) =>
                  /\ k = 2
                  /\ ~(failed.err # NoErr /\ failed.call = calls[1].call)
        /\ (failed.err # NoErr /\ C20_EmptyStep(failed.call)) =>
              /\ Len(calls) = 1
              /\ pc = "returned" => ret.value["destroyed"] = FALSE
        /\ (pc = "returned" /\ ret.value["destroyed"] = TRUE) =>
              /\ failed = NoFailure
              /\ ds_provider \in {"aws", "azure"} => (Len(calls) = 2 /\ C20_VendorDelete(calls[2].call))

C20_Witness ==
    /\ CloudBucketDestroy
    /\ ds_provider = "aws"
    /\ pc = "returned"
    /\ Len(calls) = 2
    /\ calls[1].call.verb = "empty"
    /\ calls[2].call.verb = "delete"
    /\ ret.value["destroyed"] = TRUE
-----------------------------------------------------------------------------
(* infra.py: server provisioning.  A pyinfra operation is recorded as the  *)
(* operation called, its name= argument and its commands, packages or      *)
(* destination.  pyinfra itself and fastops.vps are collaborators: an      *)
(* operation, or the SSH deployment, either goes through or raises.        *)

Digits == <<"0", "1", "2", "3", "4", "5", "6", "7", "8", "9">>

\* str(n), n >= 0
RECURSIVE str(_)
str(n) == IF n < 10 THEN <<Digits[n + 1]>> ELSE str(n \div 10) \o <<Digits[(n % 10) + 1]>>

\* Python truthiness of an optional string, list or dict
Truthy(v) ==
    CASE v.tag = "None" -> FALSE
      [] v.tag = "str"  -> v.s # <<>>
      [] v.tag = "list" -> v.l # <<>>
      [] v.tag = "dict" -> DOMAIN v.d # {}

ImportError == Err("ImportError", <<"pyinfra is required for idempotent provisioning.">>)

_require_pyinfra_always_there(installed) == NoErr

\* _require_pyinfra(): the error it raises, NoErr when the import works.
_require_pyinfra(installed) == IF installed THEN NoErr ELSE ImportError

PyinfraOp(operation, name, args) == [op |-> operation, name |-> name, args |-> args]

install_docker(user) ==
    << PyinfraOp("apt.packages", <<"Install Docker prerequisites">>,
                 << <<"ca-certificates">>, <<"curl">>, <<"gnupg">>, <<"lsb-release">> >>),
       PyinfraOp("server.shell", <<"Add Docker GPG key">>, << <<"curl -fsSL https://get.docker.com | sh">> >>),
       PyinfraOp("server.shell", <<"Add ", user, " to docker group">>, << <<"usermod -aG docker ", user>> >>),
       PyinfraOp("systemd.service", <<"Enable and start Docker">>, << <<"docker">> >>) >>

DefaultAllowed == <<22, 80, 443>>

AllowPort(port) == PyinfraOp("server.shell", <<"Allow port ">> \o str(port), << <<"ufw allow ">> \o str(port) >>)

EnableUFW == PyinfraOp("server.shell", <<"Enable UFW">>, << <<"echo \"y\" | ufw enable">> >>)

harden_server(ssh_port, allowed_ports) ==
    LET allowed == IF Truthy(allowed_ports) THEN allowed_ports.l ELSE DefaultAllowed
    IN  << PyinfraOp("apt.packages", <<"Install security packages">>,
                     << <<"ufw">>, <<"fail2ban">>, <<"unattended-upgrades">> >>),
           PyinfraOp("server.shell", <<"Configure UFW defaults">>,
                     << <<"ufw default deny incoming">>, <<"ufw default allow outgoing">> >>) >>
        \o [k \in DOMAIN allowed |-> AllowPort(allowed[k])]
        \o << EnableUFW,
              PyinfraOp("files.put", <<"Configure fail2ban jail">>,
                        << <<"/etc/fail2ban/jail.local">>, <<"[sshd] port = ">> \o str(ssh_port) >>),
              PyinfraOp("files.put", <<"Apply sysctl hardening">>, << <<"/etc/sysctl.d/99-hardening.conf">> >>),
              PyinfraOp("server.shell", <<"Reload sysctl">>, << <<"sysctl --system">> >>) >>

\* str(Caddyfile(domain, app, port).production()), with .email(email) if given
Caddyfile(domain, app, port, email) ==
    <<"Caddyfile(">> \o domain \o <<", ", app, ", ">> \o str(port) \o <<")">>
    \o (IF Truthy(email) THEN <<".email(">> \o email.s \o <<")">> ELSE <<>>)

setup_caddy(domain, app, port, email) ==
    << PyinfraOp("server.shell", <<"Add Caddy repository">>,
                 << <<"apt-get install -y debian-keyring debian-archive-keyring apt-transport-https curl">>,
                    <<"curl gpg.key | gpg --dearmor">>, <<"curl debian.deb.txt | tee caddy-stable.list">> >>),
       PyinfraOp("apt.packages", <<"Install Caddy">>, << <<"caddy">> >>),
       PyinfraOp("files.put", <<"Deploy Caddyfile">>,
                 << <<"/etc/caddy/Caddyfile">>, Caddyfile(domain, app, port, email) >>),
       PyinfraOp("systemd.service", <<"Enable and start Caddy">>, << <<"caddy">> >>) >>

setup_compose_stack(compose, path, env) ==
    << PyinfraOp("files.directory", <<"Create ", path>>, << <<path>> >>),
       PyinfraOp("files.put", <<"Deploy docker-compose.yml">>, << <<path, "/docker-compose.yml">>, compose >>) >>
    \o (IF Truthy(env)
        THEN << PyinfraOp("files.put", <<"Deploy .env file">>, << <<path, "/.env">> >>) >>
        ELSE <<>>)
    \o << PyinfraOp("server.shell", <<"Pull and deploy compose stack">>,
                    << <<"cd ", path, " && docker compose pull --quiet 2>/dev/null || true">>,
                       <<"cd ", path, " && docker compose up -d --remove-orphans">> >>) >>

\* fastops.vps.deploy, as provision() calls it
ssh_deploy(compose, host, user, path) ==
    [op |-> "vps.deploy", name |-> <<host>>, args |-> << <<user>>, <<path>>, compose >>]

IsPyinfraOp(o) == o.op # "vps.deploy"

\* What an operation raises when it does not go through.
OperationErrors(o) ==
    IF IsPyinfraOp(o) THEN {Err("PyinfraError", o.name)} ELSE {Err("CalledProcessError", o.name)}

\* provision()'s arguments: a is [installed, host, user, port, docker,
\* harden, compose, domain, caddy_port, env, packages]; kw is left empty.
\* The operations of the try block, in the order the code issues them.
PyinfraPlan(a) ==
    (IF Truthy(a.packages)
     THEN << PyinfraOp("apt.packages", <<"Install additional packages">>, a.packages.l) >>
     ELSE <<>>)
    \o (IF a.harden THEN harden_server(a.port, None) ELSE <<>>)
    \o (IF a.docker THEN install_docker(a.user) ELSE <<>>)
    \o (IF Truthy(a.domain) THEN setup_caddy(a.domain.s, "app", a.caddy_port, None) ELSE <<>>)
    \o (IF Truthy(a.compose) THEN setup_compose_stack(a.compose.s, "/srv/app", a.env) ELSE <<>>)

\* The calls of the except ImportError block.
FallbackPlan(a) ==
    IF Truthy(a.compose) THEN << ssh_deploy(a.compose.s, a.host, a.user, "/srv/app") >> ELSE <<>>

ProvisionResult(a, method, st, hardened) ==
    ("host" :> a.host) @@ ("user" :> a.user) @@ ("method" :> method) @@ ("status" :> st)
    @@ ("docker" :> a.docker) @@ ("hardened" :> hardened) @@ ("domain" :> a.domain)

\* The ways a plan can run: all of it, or up to an operation that raises.
PlanRuns(plan) ==
    {[issued |-> plan, err |-> NoErr]}
    \cup UNION {{[issued |-> SubSeq(plan, 1, k), err |-> e] : e \in OperationErrors(plan[k])} :
                   k \in DOMAIN plan}

\* The ways provision(host, **a) can run: [issued, err, value].
provision(a) ==
    IF _require_pyinfra(a.installed) = NoErr
    THEN {[issued |-> r.issued, err |-> r.err,
           value |-> IF r.err = NoErr THEN ProvisionResult(a, "pyinfra", "provisioned", a.harden)
                     ELSE EmptyDict] : r \in PlanRuns(PyinfraPlan(a))}
    ELSE {[issued |-> r.issued, err |-> r.err,
           value |-> IF r.err = NoErr THEN ProvisionResult(a, "ssh", "deployed", FALSE)
                     ELSE EmptyDict] : r \in PlanRuns(FallbackPlan(a))}

Hosts == {<<"203.0.113.7">>}

SshPorts == {22, 2222}

ComposeText == <<"services:", "web">>

ProvisionArgs ==
    [kind : {"provision"}, installed : BOOLEAN, host : Hosts, user : {"deploy"}, port : SshPorts,
     docker : BOOLEAN, harden : BOOLEAN, compose : {None, StrVal(ComposeText)},
     domain : {None, StrVal(<<"example.com">>)}, caddy_port : {5001},
     env : {None, DictVal("APP_ENV" :> <<"prod">>)}, packages : {None, ListVal(<< <<"htop">> >>)}]

InitProvision ==
    /\ infra_args \in ProvisionArgs
    /\ resources = <<>>
    /\ cloud = {}
    /\ pc = "idle"
    /\ op = "none"
    /\ prev = <<"none", "idle">>
    /\ idx = 0
    /\ ds_provider = "docker"
    /\ ds_kw = EmptyDict
    /\ merged_env = EmptyDict
    /\ dc = Compose
    /\ volumes = <<>>
    /\ results = EmptyDict
    /\ ret = NoRet
    /\ invoked = <<>>
    /\ stackOrder = <<>>
    /\ calls = <<>>
    /\ failed = NoFailure
    /\ ncalls = 0
    /\ goneAtStart = TRUE
    /\ arg_type = "none"
    /\ arg_name = <<>>
    /\ fn_arg = NoClosure
    /\ env_dict = EmptyDict
    /\ svc_out = None
    /\ out = "none"
    /\ response = NoResponse
    /\ config = NoConfig
    /\ ops = <<>>
    /\ srv_status = EmptyDict

\* provision(host, ...), run again with the same arguments after it returned
ProvisionCall ==
    /\ pc \in {"idle", "returned"}
    /\ ncalls < MaxCalls
    /\ \E r \in provision(infra_args) :
         /\ pc' = IF r.err = NoErr THEN "returned" ELSE "raised"
         /\ ret' = IF r.err = NoErr THEN Returned(r.value) ELSE Raised(r.err)
         /\ ops' = r.issued
    /\ prev' = <<op, pc>>
    /\ op' = "provision"
    /\ ncalls' = ncalls + 1
    /\ UNCHANGED <<resources, cloud, idx, ds_provider, ds_kw, merged_env, dc, volumes, results,
                   invoked, stackOrder, calls, failed, goneAtStart, arg_type, arg_name,
                   fn_arg, env_dict, svc_out, out, response, config, infra_args, srv_status>>

NextProvision == ProvisionCall

SpecProvision == InitProvision /\ [][NextProvision]_vars
\* A finished provision() call gave the result of the pyinfra path.
C21_PyinfraResult ==
    /\ pc = "returned"
    /\ ret.value["method"] = "pyinfra"
    /\ ret.value["status"] = "provisioned"

\* A finished provision() call gave the result of the SSH/rsync path.
C21_SshResult ==
    /\ pc = "returned"
    /\ ret.value["method"] = "ssh"
    /\ ret.value["status"] = "deployed"
    /\ ret.value["hardened"] = FALSE

C21_Result ==
    op = "provision" =>
        /\ pc \in {"returned", "raised"}
        /\ infra_args.installed =>
              /\ \A k \in DOMAIN ops : IsPyinfraOp(ops[k])
              /\ pc = "returned" => C21_PyinfraResult
        /\ ~infra_args.installed =>
              /\ \A k \in DOMAIN ops : ~IsPyinfraOp(ops[k])
              /\ pc = "returned" => C21_SshResult

\* A second run, after a run that returned, returns what the first returned
\* and issues the operations the first issued.
C21_Repeat ==
    (op = "provision" /\ pc = "returned" /\ pc' = "returned") => (ret' = ret /\ ops' = ops)

C21_WitnessPyinfra ==
    /\ op = "provision"
    /\ prev = <<"provision", "returned">>
    /\ infra_args.installed
    /\ C21_PyinfraResult
    /\ ops # <<>>
-----------------------------------------------------------------------------
(* connect.py: ResourceConfig.  _resources is kept as the sequence of its   *)
(* [name, group] entries in insertion order; a group is a dict.            *)

\* The first tokens of the URLs the model uses, by the text they begin with.
LeadingTokens(scheme) ==
    CASE scheme = "postgresql" -> {"postgresql", "postgresql://", "postgresql://postgres:"}
      [] scheme = "mysql"      -> {"mysql", "mysql://", "mysql://root:"}
      [] scheme = "mongodb"    -> {"mongodb", "mongodb://", "mongodb://admin:"}
      [] scheme = "sqlite"     -> {"sqlite", "sqlite://", "sqlite:///data.db"}

\* url.startswith(scheme)
url_startswith(url, scheme) == Len(url) >= 1 /\ url[1] \in LeadingTokens(scheme)

\* The keys of the model that begin with an underscore.
UnderscoreKeys == {"_type", "_internal"}

\* key.startswith('_')
key_startswith_underscore(key) == key \in UnderscoreKeys

\* {key: env_dict[key] for key in keys if key in env_dict}
Only(env, keys) == [k \in keys \cap DOMAIN env |-> env[k]]

Group(name, type, rest) == [name |-> name, group |-> ("_type" :> type) @@ rest]

storage_keys == {"S3_ENDPOINT", "S3_BUCKET", "AZURE_STORAGE_CONNECTION_STRING", "GCS_BUCKET"}

storage_type_map ==
    (<<"docker">> :> <<"minio">>) @@ (<<"aws">> :> <<"s3">>) @@ (<<"azure">> :> <<"azure_blob">>)
    @@ (<<"gcp">> :> <<"gcs">>)

DbGroup(env) ==
    IF "DATABASE_URL" \in DOMAIN env
    THEN LET url == env["DATABASE_URL"]
             db_type == IF url_startswith(url, "postgresql") THEN <<"postgres">>
                        ELSE IF url_startswith(url, "mysql") THEN <<"mysql">>
                        ELSE IF url_startswith(url, "mongodb") THEN <<"mongo">>
                        ELSE IF url_startswith(url, "sqlite") THEN <<"sqlite">>
                        ELSE <<"postgres">>
         IN  << Group("db", db_type, Only(env, {"DATABASE_URL", "DB_PROVIDER"})) >>
    ELSE <<>>

CacheGroup(env) ==
    IF "REDIS_URL" \in DOMAIN env
    THEN << Group("cache", <<"redis">>, Only(env, {"REDIS_URL", "CACHE_PROVIDER"})) >>
    ELSE <<>>

QueueGroup(env) ==
    IF "QUEUE_URL" \in DOMAIN env \/ "QUEUE_TOPIC" \in DOMAIN env
    THEN << Group("queue", Get(env, "QUEUE_PROVIDER", <<"rabbitmq">>),
                  Only(env, {"QUEUE_URL", "QUEUE_TOPIC", "QUEUE_NAME", "QUEUE_SUBSCRIPTION"})) >>
    ELSE <<>>

StorageGroup(env) ==
    IF \E key \in storage_keys : key \in DOMAIN env
    THEN LET provider == Get(env, "STORAGE_PROVIDER", <<"docker">>)
         IN  << Group("storage", Get(storage_type_map, provider, <<"minio">>),
                      Only(env, {"S3_ENDPOINT", "S3_BUCKET", "S3_ACCESS_KEY", "S3_SECRET_KEY",
                                 "AZURE_STORAGE_CONNECTION_STRING", "AZURE_STORAGE_CONTAINER",
                                 "GCS_BUCKET", "S3_REGION", "STORAGE_PROVIDER"})) >>
    ELSE <<>>

LlmGroup(env) ==
    IF "LLM_ENDPOINT" \in DOMAIN env \/ "LLM_MODEL" \in DOMAIN env
    THEN << Group("llm", Get(env, "LLM_PROVIDER", <<"openai">>),
                  Only(env, {"LLM_ENDPOINT", "LLM_MODEL", "LLM_PROVIDER", "OPENAI_API_KEY",
                             "AZURE_OPENAI_API_KEY", "AZURE_OPENAI_DEPLOYMENT", "AWS_REGION"})) >>
    ELSE <<>>

SearchGroup(env) ==
    IF "SEARCH_URL" \in DOMAIN env
    THEN << Group("search", Get(env, "SEARCH_PROVIDER", <<"elasticsearch">>),
                  Only(env, {"SEARCH_URL", "SEARCH_PROVIDER", "SEARCH_API_KEY"})) >>
    ELSE <<>>

_detect_resource_groups(env) ==
    DbGroup(env) \o CacheGroup(env) \o QueueGroup(env) \o StorageGroup(env) \o LlmGroup(env)
    \o SearchGroup(env)

\* ResourceConfig.from_env(env_dict)._resources
from_env(env) == _detect_resource_groups(env)

Visible_keeping_type(group) == group

\* {key: value for key, value in group.items() if not key.startswith('_')}
Visible(group) == [k \in {x \in DOMAIN group : ~key_startswith_underscore(x)} |-> group[k]]

\* ResourceConfig.to_env()
RECURSIVE to_env(_)
to_env(rs) == IF rs = <<>> THEN EmptyDict ELSE Update(Visible(rs[1].group), to_env(Tail(rs)))
Config(rs) == [kind |-> "config", _resources |-> rs]

\* The environment maps given to from_env: every fragment made of the keys
\* the classifier reads, the fragment of every provisioning function, the
\* merge of any two of them, and each of these with an underscore key added.
ClosureEnvs == {resource_fn(c).env : c \in AllClosures}

UnderscoreFragments == {[k \in ks |-> <<"hidden">>] : ks \in SUBSET UnderscoreKeys}

ConnectEnvs ==
    KeyFragments
    \cup {Update(Update(d, e), u) : d \in ClosureEnvs, e \in ClosureEnvs, u \in UnderscoreFragments}

InitConnect ==
    /\ env_dict \in ConnectEnvs
    /\ resources = <<>>
    /\ cloud = {}
    /\ pc = "idle"
    /\ op = "none"
    /\ prev = <<"none", "idle">>
    /\ idx = 0
    /\ ds_provider = "docker"
    /\ ds_kw = EmptyDict
    /\ merged_env = EmptyDict
    /\ dc = Compose
    /\ volumes = <<>>
    /\ results = EmptyDict
    /\ ret = NoRet
    /\ invoked = <<>>
    /\ stackOrder = <<>>
    /\ calls = <<>>
    /\ failed = NoFailure
    /\ ncalls = 0
    /\ goneAtStart = TRUE
    /\ arg_type = "none"
    /\ arg_name = <<>>
    /\ fn_arg = NoClosure
    /\ svc_out = None
    /\ out = "none"
    /\ response = NoResponse
    /\ config = NoConfig
    /\ infra_args = NoArgs
    /\ ops = <<>>
    /\ srv_status = EmptyDict

\* config = ResourceConfig.from_env(env_dict); the teardown classifier is
\* applied to the same map.
FromEnv ==
    /\ pc = "idle"
    /\ config' = Config(from_env(env_dict))
    /\ out' = _infer_resource_type(env_dict)
    /\ pc' = "loaded"
    /\ op' = "from_env"
    /\ UNCHANGED <<resources, cloud, prev, idx, ds_provider, ds_kw, merged_env, dc, volumes, results,
                   ret, invoked, stackOrder, calls, failed, ncalls, goneAtStart, arg_type, arg_name,
                   fn_arg, env_dict, svc_out, response, infra_args, ops, srv_status>>

\* config.to_env()
ToEnv ==
    /\ pc = "loaded"
    /\ ret' = Returned(to_env(config._resources))
    /\ pc' = "returned"
    /\ op' = "to_env"
    /\ UNCHANGED <<resources, cloud, prev, idx, ds_provider, ds_kw, merged_env, dc, volumes, results,
                   invoked, stackOrder, calls, failed, ncalls, goneAtStart, arg_type, arg_name,
                   fn_arg, env_dict, svc_out, out, response, config, infra_args, ops, srv_status>>

NextConnect == FromEnv \/ ToEnv

SpecConnect == InitConnect /\ [][NextConnect]_vars

\* C22: flattening a config built from an environment map gives back a
\* sub-map of it: to_env() of from_env(env) has no key starting with '_',
\* and every key/value pair of it is a key/value pair of env.
C22_SubMap ==
    (op = "to_env" /\ pc = "returned") =>
        /\ \A k \in DOMAIN ret.value : ~key_startswith_underscore(k)
        /\ \A k \in DOMAIN ret.value : k \in DOMAIN env_dict /\ ret.value[k] = env_dict[k]

C22_Witness ==
    /\ op = "to_env"
    /\ pc = "returned"
    /\ Len(config._resources) = 2
    /\ "_type" \in DOMAIN env_dict
    /\ DOMAIN ret.value = {"DATABASE_URL", "DB_PROVIDER", "SEARCH_URL", "SEARCH_PROVIDER", "SEARCH_API_KEY"}
\* The classifier's key-presence predicate for a kind holds on env: some
\* key of env, taken alone, is classified as that kind.
KindPresent(env, kind) == \E k \in DOMAIN env : _infer_resource_type(Only(env, {k})) = kind

\* The group names a kind can be saved under.
GroupNames(kind) ==
    CASE kind = "database" -> {"db", "database"}
      [] kind = "bucket"   -> {"storage", "bucket"}
      [] OTHER             -> {kind}

HasGroup(rs, kind) == \E k \in DOMAIN rs : rs[k].name \in GroupNames(kind)

\* C28: the persisted-config grouping agrees with the teardown classifier:
\* for every environment map and each of the seven kinds,
\* _detect_resource_groups creates a group for the kind exactly when the
\* classifier's key-presence predicate for that kind holds on the map.
C28_GroupsAgree ==
    op = "from_env" =>
        \A kind \in dispatchers : HasGroup(config._resources, kind) <=> KindPresent(env_dict, kind)

\* The six kinds other than function do agree.
C28_SixKindsAgree ==
    op = "from_env" =>
        \A kind \in dispatchers \ {"function"} :
            HasGroup(config._resources, kind) <=> KindPresent(env_dict, kind)
-----------------------------------------------------------------------------
(* The outcome destroy returns.                                            *)

\* C23: every outcome returned by destroy, for every kind, name and
\* provider (supported or not), carries the four fields destroyed (a
\* boolean), resource, provider and message, with resource the name passed
\* in and provider the provider passed in.
C23_FourFields ==
    (op = "destroy" /\ pc = "returned") =>
        /\ DOMAIN ret.value = {"destroyed", "resource", "provider", "message"}
        /\ ret.value["destroyed"] \in BOOLEAN
        /\ ret.value["resource"] = arg_name
        /\ ret.value["provider"] = ds_provider
        /\ ret.value["message"] # <<>>

C23_Witness ==
    /\ op = "destroy"
    /\ pc = "returned"
    /\ arg_type = "queue"
    /\ ds_provider = "heroku"
    /\ arg_name = KeyNames[3]
    /\ ret.value["resource"] = KeyNames[3]
    /\ ret.value["provider"] = "heroku"
    /\ ret.value["destroyed"] = FALSE
-----------------------------------------------------------------------------
(* Key namespaces.                                                         *)

\* C24: environment keys are namespaced per kind: the key set of the
\* fragment a provisioning function returned shares no key with the
\* fragment of a provisioning function of any other kind, whatever the two
\* providers.
C24_Namespaced ==
    (op = "provision" /\ fn_arg # NoClosure) =>
        \A c \in AllClosures :
            c.f # fn_arg.f => DOMAIN env_dict \cap DOMAIN resource_fn(c).env = {}

C24_Witness ==
    /\ op = "provision"
    /\ pc = "provisioned"
    /\ fn_arg.f = "llm"
    /\ fn_arg.provider = "aws"
    /\ "AWS_REGION" \in DOMAIN env_dict
    /\ \E c \in AllClosures : c.f = "bucket" /\ c.provider = "aws" /\ "S3_REGION" \in DOMAIN resource_fn(c).env
-----------------------------------------------------------------------------
(* The provider destroy_stack deletes at.                                  *)

\* C25: destroy_stack dispatches each resource's delete to the provider the
\* resource was provisioned with: no resource of the record is reported
\* destroyed:true by the branch of a provider it was not provisioned at.
C25_OwnProvider ==
    op = "destroy_stack" =>
        \A k \in DOMAIN resources :
            (/\ resources[k].fn.f # "lambda"
             /\ resources[k].name \in DOMAIN results
             /\ results[resources[k].name]["destroyed"] = TRUE)
                => results[resources[k].name]["provider"] = resources[k].fn.provider
-----------------------------------------------------------------------------
(* Deletes made of several steps.                                          *)

\* GCP queue: subscription then topic; Azure bucket: container then storage
\* account; Azure LLM: deployment then account; AWS queue: URL lookup then
\* delete.
SeveralSteps(kind, p) ==
    \/ kind = "queue" /\ p \in {"gcp", "aws"}
    \/ kind = "bucket" /\ p = "azure"
    \/ kind = "llm" /\ p = "azure"

\* The components of the resource: the objects its delete calls act on.
Components == Touched(Dispatch(arg_type, arg_name, ds_provider, ds_kw))

\* C26: for cloud resources deleted in several steps, whenever destroy
\* returns a not-found outcome, no component of the resource still exists
\* at the provider.
C26_NotFoundMeansGone ==
    (op = "destroy" /\ pc = "returned" /\ SeveralSteps(arg_type, ds_provider)
       /\ NotFoundOutcome(ret.value)) =>
        Components \cap cloud = {}
-----------------------------------------------------------------------------
(* The outcome map of destroy_stack.                                       *)

C27_OneEntryPerName ==
    DestroyReturned =>
        /\ DOMAIN ret.value = Range(Names(resources))
        /\ Cardinality(DOMAIN ret.value) = Len(resources)
        /\ \A k \in DOMAIN resources : ret.value[resources[k].name]["resource"] = resources[k].name

\* No step of a teardown changes the record.
C27_RecordKept == (op' = "destroy_stack") => resources' = resources

\* C27: when destroy_stack returns without raising, its outcome map has
\* exactly one entry for every name of the record and no other entry, and
\* the record itself is left as it was: same names, same order, same
\* functions.
C27_ExactOutcomeMap == [](C27_OneEntryPerName) /\ [][C27_RecordKept]_vars

C27_Witness ==
    /\ DestroyReturned
    /\ Len(resources) = 2
    /\ resources[1].fn.f = "database"
    /\ resources[2].fn.f = "lambda"
    /\ DOMAIN ret.value = {KeyNames[1], KeyNames[2]}
-----------------------------------------------------------------------------
(* Hardening and the SSH port.                                             *)

\* C29: when provision hardens a server (harden=True, pyinfra available)
\* reached on SSH port p, a UFW allow rule for port p is issued before UFW
\* is enabled.
C29_SshPortAllowed ==
    (op = "provision" /\ infra_args.installed /\ infra_args.harden) =>
        \A k \in DOMAIN ops :
            ops[k] = EnableUFW => \E j \in 1..(k - 1) : ops[j] = AllowPort(infra_args.port)

\* With the default port 22 the rule is there.
C29_DefaultPortAllowed ==
    (op = "provision" /\ infra_args.installed /\ infra_args.harden /\ infra_args.port = 22) =>
        \A k \in DOMAIN ops :
            ops[k] = EnableUFW => \E j \in 1..(k - 1) : ops[j] = AllowPort(infra_args.port)
-----------------------------------------------------------------------------
(* infra.py: server_status.  The text run_ssh returns is a sequence of     *)
(* tokens, whitespace being tokens of its own; 'inactive' is the tokens    *)
(* "in", "active", so that a substring test sees what Python's `in` sees.  *)

Whitespace == {" ", "\n", "\t"}

RECURSIVE lstrip(_)
lstrip(s) == IF s # <<>> /\ Head(s) \in Whitespace THEN lstrip(Tail(s)) ELSE s

\* s.strip()
strip(s) == Reverse(lstrip(Reverse(lstrip(s))))

\* s.split(sep)
RECURSIVE split(_, _)
split(s, sep) ==
    IF \E k \in DOMAIN s : s[k] = sep
    THEN LET k == CHOOSE i \in DOMAIN s : s[i] = sep /\ \A j \in 1..(i - 1) : s[j] # sep
         IN  <<SubSeq(s, 1, k - 1)>> \o split(SubSeq(s, k + 1, Len(s)), sep)
    ELSE <<s>>

\* [c.strip() for c in containers.split('\n') if c.strip() and c.strip() != 'none']
ContainerList(text) ==
    LET lines == split(text, "\n")
        kept == SelectSeq(lines, LAMBDA c : strip(c) # <<>> /\ strip(c) # <<"none">>)
    IN  [k \in DOMAIN kept |-> strip(kept[k])]

\* The seven probes, in the order of the code: the key they set, the command
\* they run, what they make of its output, and the value set when they fail.
ProbeKeys == <<"docker", "containers", "caddy", "disk_usage", "memory", "uptime", "ufw">>

ProbeCommand(key) ==
    CASE key = "docker"     -> <<"systemctl is-active docker 2>/dev/null || echo stopped">>
      [] key = "containers" -> <<"docker ps --format \"{{.Names}}: {{.Status}}\" 2>/dev/null || echo none">>
      [] key = "caddy"      -> <<"systemctl is-active caddy 2>/dev/null || echo stopped">>
      [] key = "disk_usage" -> <<"df -h / | tail -1 | awk '{print $5}'">>
      [] key = "memory"     -> <<"free -m | awk 'NR==2{...}'">>
      [] key = "uptime"     -> <<"uptime -p">>
      [] key = "ufw"        -> <<"ufw status 2>/dev/null || echo inactive">>

ProbeValue(key, text) ==
    CASE key \in {"docker", "caddy"}                -> IsInfix(<<"running">>, text)
      [] key = "containers"                         -> ContainerList(text)
      [] key \in {"disk_usage", "memory", "uptime"} -> strip(text)
      [] key = "ufw"                                -> IsInfix(<<"active">>, text)

ProbeDefault(key) ==
    CASE key \in {"docker", "caddy", "ufw"}         -> FALSE
      [] key = "containers"                         -> <<>>
      [] key \in {"disk_usage", "memory", "uptime"} -> <<"unknown">>

\* What run_ssh can do for a probe: raise, or return the command's output.
SshFailed == [kind |-> "raise", text |-> <<>>]

SshOutput(text) == [kind |-> "output", text |-> text]

SshOutcomes(key) ==
    {SshFailed} \cup
    {SshOutput(t) : t \in
        CASE key \in {"docker", "caddy"} -> {<<"active", "\n">>, <<"running", "\n">>, <<"stopped", "\n">>}
          [] key = "containers" -> {<<"none", "\n">>,
                                    <<"web", ":", " ", "Up", "\n", " ", "db", ":", " ", "Up", " ", "\n">>}
          [] key = "disk_usage" -> {<<" ", "42%", "\n">>}
          [] key = "memory"     -> {<<"512/2048MB (25%)">>}
          [] key = "uptime"     -> {<<"up 3 days", "\n">>}
          [] key = "ufw"        -> {<<"Status: ", "active", "\n">>, <<"Status: ", "in", "active", "\n">>,
                                    <<"in", "active", "\n">>}}

\* The probes reached: all of them, a failed probe not ending the call.
Reached_until_failure(o) == {k \in DOMAIN ProbeKeys : \A j \in 1..(k - 1) : o[j].kind = "output"}

Reached(o) == DOMAIN ProbeKeys

\* server_status(host, ...), o[k] being what run_ssh does for the k-th
\* probe: [issued, value].
server_status(a, o) ==
    LET n == Cardinality(Reached(o))
    IN  [issued |-> [k \in 1..n |-> [op |-> "vps.run_ssh", name |-> a.host,
                                     args |-> ProbeCommand(ProbeKeys[k]), outcome |-> o[k].kind]],
         value  |-> ("host" :> a.host)
                    @@ [key \in {ProbeKeys[k] : k \in Reached(o)} |->
                          LET k == CHOOSE i \in DOMAIN ProbeKeys : ProbeKeys[i] = key
                          IN  IF o[k].kind = "output" THEN ProbeValue(key, o[k].text)
                              ELSE ProbeDefault(key)]]

StatusArgs == [kind : {"server_status"}, host : Hosts, user : {"deploy"}, port : SshPorts]

InitServer ==
    /\ infra_args \in StatusArgs
    /\ resources = <<>>
    /\ cloud = {}
    /\ pc = "idle"
    /\ op = "none"
    /\ prev = <<"none", "idle">>
    /\ idx = 0
    /\ ds_provider = "docker"
    /\ ds_kw = EmptyDict
    /\ merged_env = EmptyDict
    /\ dc = Compose
    /\ volumes = <<>>
    /\ results = EmptyDict
    /\ ret = NoRet
    /\ invoked = <<>>
    /\ stackOrder = <<>>
    /\ calls = <<>>
    /\ failed = NoFailure
    /\ ncalls = 0
    /\ goneAtStart = TRUE
    /\ arg_type = "none"
    /\ arg_name = <<>>
    /\ fn_arg = NoClosure
    /\ env_dict = EmptyDict
    /\ svc_out = None
    /\ out = "none"
    /\ response = NoResponse
    /\ config = NoConfig
    /\ ops = <<>>
    /\ srv_status = EmptyDict

ServerStatusCall ==
    /\ pc = "idle"
    /\ \E o1 \in SshOutcomes(ProbeKeys[1]), o2 \in SshOutcomes(ProbeKeys[2]),
          o3 \in SshOutcomes(ProbeKeys[3]), o4 \in SshOutcomes(ProbeKeys[4]),
          o5 \in SshOutcomes(ProbeKeys[5]), o6 \in SshOutcomes(ProbeKeys[6]),
          o7 \in SshOutcomes(ProbeKeys[7]) :
         LET r == server_status(infra_args, <<o1, o2, o3, o4, o5, o6, o7>>)
         IN  /\ ops' = r.issued
             /\ srv_status' = r.value
             /\ ret' = Returned(r.value)
    /\ pc' = "returned"
    /\ op' = "server_status"
    /\ UNCHANGED <<resources, cloud, prev, idx, ds_provider, ds_kw, merged_env, dc, volumes, results,
                   invoked, stackOrder, calls, failed, ncalls, goneAtStart, arg_type, arg_name,
                   fn_arg, env_dict, svc_out, out, response, config, infra_args>>

NextServer == ServerStatusCall

SpecServer == InitServer /\ [][NextServer]_vars

\* C30: server_status isolates probe failures: whichever of its seven
\* remote probes fail, every probe is attempted, in the order of the code,
\* and the map returned has all of host, docker, containers, caddy,
\* disk_usage, memory, uptime and ufw, the key of a failed probe holding
\* its fixed default: False, [] or 'unknown'.
C30_ProbesIsolated ==
    op = "server_status" =>
        /\ pc = "returned"
        /\ Len(ops) = 7
        /\ \A k \in DOMAIN ops : ops[k].args = ProbeCommand(ProbeKeys[k])
        /\ DOMAIN ret.value = {"host", "docker", "containers", "caddy", "disk_usage", "memory", "uptime", "ufw"}
        /\ ret.value["host"] = infra_args.host
        /\ \A k \in DOMAIN ops :
              ops[k].outcome = "raise" =>
                  ret.value[ProbeKeys[k]] =
                      (CASE ProbeKeys[k] \in {"docker", "caddy", "ufw"} -> FALSE
                         [] ProbeKeys[k] = "containers" -> <<>>
                         [] OTHER -> <<"unknown">>)

C30_Witness ==
    /\ op = "server_status"
    /\ pc = "returned"
    /\ ops[1].outcome = "raise"
    /\ ops[4].outcome = "raise"
    /\ ops[7].outcome = "output"
    /\ ret.value["docker"] = FALSE
    /\ ret.value["containers"] = << <<"web", ":", " ", "Up">>, <<"db", ":", " ", "Up">> >>
    /\ ret.value["disk_usage"] = <<"unknown">>
    /\ ret.value["uptime"] = <<"up 3 days">>
    /\ ret.value["ufw"] = TRUE

=============================================================================
